---- MODULE Spec2Model ----
(***************************************************************************)
(* Model of the Dwolla sandbox dashboard backend (src/backend/server.js). *)
(*                                                                         *)
(* The server is a single-threaded event loop.  A handler runs            *)
(* synchronously up to its next `await` of a provider call; the provider  *)
(* answers in a later step.  Each request slot records the handler, the   *)
(* await point it is suspended at, its closure variables, the provider    *)
(* calls it has issued so far and, once answered, the HTTP response.      *)
(* The provider (Dwolla) is an external collaborator: its answers are     *)
(* chosen nondeterministically from small sets.                           *)
(***************************************************************************)
EXTENDS Integers, Sequences, FiniteSets, TLC

VARIABLES
  dwollaConfig,    \* key, secret, accessToken, expiresIn, tokenCreatedAt
  dwollaClient,    \* credentials the SDK client was built with
  customersStore,  \* local customer registry
  transfersStore,  \* local transfer registry
  webhooksStore,   \* received webhook events, newest first
  now,             \* Date.now(), in milliseconds
  req,             \* one record per request slot
  returned,        \* value returned by the latest getValidAccessToken call
  hookRes,         \* response to the latest POST /api/webhooks
  dwolla           \* provider side: customers and transfers it has created

vars == <<dwollaConfig, dwollaClient, customersStore, transfersStore,
          webhooksStore, now, req, returned, hookRes, dwolla>>

(***************************************************************************)
(* Bounds of the model.                                                    *)
(***************************************************************************)
MaxNow == 90000          \* the clock stops advancing here (ms)
MaxCustomers == 2        \* customers the provider agrees to create
MaxTransfers == 2        \* transfers the provider agrees to create
MaxEvents == 2           \* webhook deliveries in the event specification
MaxDeliveries == 102     \* webhook deliveries in the retention specification

(***************************************************************************)
(* Program constants.                                                      *)
(***************************************************************************)
SafetyMargin == 60       \* seconds subtracted from the token lifetime
MsPerSecond == 1000      \* Date.now() is in ms, expires_in in seconds
WebhookLimit == 100      \* webhooks kept

Reqs == {1, 2}           \* request slots
Null == ""               \* null / undefined / empty string (all falsy)
NoUrl == <<>>            \* absent link or URL
Truthy(s) == s # Null

\* Response texts, as written in the handlers.
ErrNotConfigured == "Dwolla credentials not configured. Please set up API key and secret."
ErrTokenFailed == "Failed to obtain Dwolla access token. Check your API credentials."
ErrKeySecretRequired == "Both API key and secret are required"
ErrCustomerFields == "First name, last name, and email are required"
ErrEmailExists == "A customer with this email already exists"
ErrPhoneExists == "A customer with this phone number already exists"
ErrListCustomers == "Failed to list customers from Dwolla"
ErrTransferFields == "Source funding source, destination funding source, and amount are required"
ErrAmount == "Amount must be greater than 0"
ErrSourceUnverified == "Source funding source is not verified. Only verified funding sources can send transfers."
ErrSourceInvalid == "Invalid source funding source"
ErrDestUnverified == "Destination funding source is not verified. Enable \"Allow unverified\" to send to unverified funding sources."
ErrOwnerUnverified == "Cannot send to unverified funding source - the customer who owns it is not verified."
ErrOwnerUnknown == "Could not verify the customer who owns the destination funding source."
ErrDestInvalid == "Invalid destination funding source"
ErrCreateTransfer == "Failed to create transfer"
ErrWebhook == "Failed to process webhook"
ErrCustomerNotFound == "Customer not found"
ErrGetCustomer == "Failed to get customer details"
ErrVerify == "Failed to verify customer"
ErrEligible == "Failed to get eligible customers"
ErrNameRequired == "Account nickname (name) is required"
ErrAddFunding == "Failed to add funding source"
ErrListFunding == "Failed to list funding sources"
ErrIavToken == "Failed to create IAV token"
ErrListTransfers == "Failed to list transfers from Dwolla"

(***************************************************************************)
(* Strings the code inspects character by character are sequences.        *)
(***************************************************************************)
\* String.prototype.toLowerCase on the alphabet of the model.
LowerChar(c) == CASE c = "A" -> "a"
                  [] c = "B" -> "b"
                  [] OTHER -> c

ToLowerCase(s) == [i \in 1..Len(s) |-> LowerChar(s[i])]

\* url.split('/').pop(): a URL is the sequence of its '/'-delimited segments.
IdOf(url) == url[Len(url)]

\* topic.startsWith(prefix + '_'): a topic is the sequence of its
\* '_'-delimited words.
StartsWith(topic, word) == Len(topic) >= 2 /\ topic[1] = word

Ids == <<"id1", "id2", "id3", "id4", "id5", "id6">>
CustomerUrl(n) == <<"customers", Ids[n]>>
TransferUrl(n) == <<"transfers", Ids[n]>>

(***************************************************************************)
(* Token management.                                                       *)
(***************************************************************************)
Configured == Truthy(dwollaConfig.key) /\ Truthy(dwollaConfig.secret)

\* Variant: the age is compared in milliseconds against seconds.
IsExpiredUnscaled ==
  \/ ~Truthy(dwollaConfig.accessToken)
  \/ (now - dwollaConfig.tokenCreatedAt) >= (dwollaConfig.expiresIn - SafetyMargin)

\* Variant: strict comparison, the token is still used at the margin.
IsExpiredStrict ==
  \/ ~Truthy(dwollaConfig.accessToken)
  \/ (now - dwollaConfig.tokenCreatedAt)
        > (dwollaConfig.expiresIn - SafetyMargin) * MsPerSecond

\* isExpired of getValidAccessToken; tokenAge is (now - tokenCreatedAt)/1000.
IsExpired ==
  \/ ~Truthy(dwollaConfig.accessToken)
  \/ (now - dwollaConfig.tokenCreatedAt)
        >= (dwollaConfig.expiresIn - SafetyMargin) * MsPerSecond

\* Credentials the provider accepts.
ValidCredentials == {<<"key1", "secret1">>}

(***************************************************************************)
(* Request slots.                                                          *)
(***************************************************************************)
NoBody == [empty |-> TRUE]  \* a request without body
NoCredentials == <<>>       \* no SDK client yet

\* localCustomer is the position of the registry record a handler holds a
\* reference to (0: none); detached tells that the registry array was
\* replaced since, so that the reference points to an object outside it.
\* all, next, eligible, answers are allCustomers, the loop position,
\* eligibleCustomers and the funding-source answers of the eligible handler.
\* tasks are the async mappers that GET /api/transfers runs under
\* Promise.all, one per provider transfer (all).
NoLocals == [location |-> NoUrl, srcStatus |-> Null,
             dstStatus |-> Null, owner |-> NoUrl, ownerStatus |-> Null,
             localCustomer |-> 0, detached |-> FALSE, newStatus |-> Null,
             all |-> <<>>, next |-> 0, eligible |-> <<>>, answers |-> <<>>,
             tasks |-> <<>>]

IdleReq == [h |-> "none", pc |-> "idle", sub |-> "none", pend |-> "none",
            authAs |-> NoCredentials, body |-> NoBody, loc |-> NoLocals, calls |-> <<>>,
            gvat |-> 0, status |-> 0, error |-> Null]

NewReq(h, body) == [IdleReq EXCEPT !.h = h, !.pc = "start", !.body = body]

\* res.status(s).json(...): the handler has answered.
Respond(rq, s, e) ==
  [rq EXCEPT !.pc = "done", !.sub = "none", !.pend = "none",
             !.status = s, !.error = e]

NoneInFlight == \A q \in Reqs : req[q].sub = "none"

\* Text of a thrown error: error.message, or the joined messages of the
\* provider's structured error list.
Message(err) == err.message

\* Errors without a structured body, and errors carrying the provider's
\* _embedded.errors list (one entry).
ConfigError == [kind |-> "config", code |-> Null, path |-> Null,
                message |-> ErrNotConfigured]
TokenError == [kind |-> "token", code |-> Null, path |-> Null,
               message |-> ErrTokenFailed]
NetworkError == [kind |-> "network", code |-> Null, path |-> Null,
                 message |-> "network failure"]
ProviderError(code, path) == [kind |-> "provider", code |-> code, path |-> path,
                              message |-> "rejected by the provider"]
ProviderErrors == {NetworkError, ProviderError("ValidationError", Null)}

\* The error text built by the catch block of POST /api/transfers.
TransferMessage(err) ==
  IF err.kind # "provider" THEN ErrCreateTransfer
  ELSE IF err.code = "InsufficientFunds" THEN "Insufficient funds in source account."
  ELSE IF err.code = "Invalid" /\ err.path = "/_links/source/href"
    THEN "Source funding source is not verified."
  ELSE IF err.code = "Invalid" /\ err.path = "/_links/destination/href"
    THEN "Destination funding source is not verified."
  ELSE err.message

RECURSIVE DwollaRequest(_, _, _)

\* Position of the first verified customer at or after k, Len(all) + 1 if none:
\* the loop of the eligible handler skips the others.
FirstVerifiedFrom(all, k) ==
  IF \E i \in k..Len(all) : all[i].status = "verified"
    THEN CHOOSE i \in k..Len(all) :
           /\ all[i].status = "verified"
           /\ \A j \in k..(i - 1) : all[j].status # "verified"
    ELSE Len(all) + 1

\* The for loop of GET /api/customers/eligible, entered at position k: the
\* funding sources of the next verified customer are requested, or the list
\* is answered.
EligibleLoop(rq, k) ==
  LET i == FirstVerifiedFrom(rq.loc.all, k)
      at == [rq EXCEPT !.loc.next = i]
  IN
  IF i > Len(rq.loc.all)
    THEN Respond(at, 200, Null)
    ELSE DwollaRequest(at, "sources", "get funding-sources")

\* What the handler saw of one customer's funding sources.
FetchFailed == [ok |-> FALSE, sources |-> <<>>]
Fetched(sources) == [ok |-> TRUE, sources |-> sources]

\* The error text built by the catch block of POST /api/customers/:id/verify.
VerifyMessage(err) == IF err.kind = "provider" THEN err.message ELSE ErrVerify

\* The error text built by the catch block of
\* POST /api/customers/:id/funding-sources.
FundingMessage(err) == IF err.kind = "provider" THEN err.message ELSE ErrAddFunding

\* The catch block that receives an error thrown at the await point rq.pc.
Catch(rq, err) ==
  CASE rq.h = "config" -> Respond(rq, 400, Message(err))
    [] rq.h = "listCustomers" -> Respond(rq, 500, ErrListCustomers)
    [] rq.h = "createCustomer" -> Respond(rq, 400, Message(err))
    [] rq.h = "createTransfer" /\ rq.pc = "source" -> Respond(rq, 400, ErrSourceInvalid)
    [] rq.h = "createTransfer" /\ rq.pc = "destination" -> Respond(rq, 400, ErrDestInvalid)
    [] rq.h = "createTransfer" /\ rq.pc = "owner" -> Respond(rq, 400, ErrOwnerUnknown)
    [] rq.h = "createTransfer" /\ rq.pc \notin {"source", "destination", "owner"}
         -> Respond(rq, 400, TransferMessage(err))
    [] rq.h = "getCustomer" -> Respond(rq, 500, ErrGetCustomer)
    [] rq.h = "verify" -> Respond(rq, 400, VerifyMessage(err))
    [] rq.h = "addFundingSource" -> Respond(rq, 400, FundingMessage(err))
    [] rq.h = "listFundingSources" -> Respond(rq, 500, ErrListFunding)
    [] rq.h = "iavToken" -> Respond(rq, 500, ErrIavToken)
    [] rq.h = "listTransfers" -> Respond(rq, 500, ErrListTransfers)
    [] rq.h = "eligible" /\ rq.pc = "sources"
         -> EligibleLoop([rq EXCEPT !.loc.answers = Append(@, FetchFailed)],
                         rq.loc.next + 1)
    [] rq.h = "eligible" /\ rq.pc # "sources" -> Respond(rq, 500, ErrEligible)
    [] OTHER -> Respond(rq, 500, Message(err))

\* Variant: the token is requested without looking at the key and secret.
DwollaRequestUnguarded(rq, pc, call) ==
  LET at == [rq EXCEPT !.pc = pc, !.gvat = @ + 1] IN
  IF IsExpired
    THEN [at EXCEPT !.sub = "auth", !.pend = call, !.authAs = dwollaClient,
                    !.calls = Append(@, "auth")]
    ELSE [at EXCEPT !.sub = "call", !.pend = call, !.calls = Append(@, call)]

\* dwollaRequest(call) issued by the handler at await point pc: the
\* synchronous part of getValidAccessToken runs at once.
DwollaRequest(rq, pc, call) ==
  LET at == [rq EXCEPT !.pc = pc, !.gvat = @ + 1] IN
  IF ~Configured THEN Catch(at, ConfigError)
  ELSE IF IsExpired
    THEN [at EXCEPT !.sub = "auth", !.pend = call, !.authAs = dwollaClient,
                    !.calls = Append(@, "auth")]
    ELSE [at EXCEPT !.sub = "call", !.pend = call, !.calls = Append(@, call)]

\* Value of `returned` after a step that took slot r from old to new.
ReturnedAfter(old, new) ==
  IF new.gvat > old.gvat /\ Configured /\ ~IsExpired
    THEN dwollaConfig.accessToken
    ELSE returned

(***************************************************************************)
(* Initial state: the module-level `let` declarations.                     *)
(***************************************************************************)
Init ==
  /\ dwollaConfig = [key |-> Null, secret |-> Null, accessToken |-> Null,
                     expiresIn |-> 0, tokenCreatedAt |-> 0]
  /\ dwollaClient = NoCredentials
  /\ customersStore = <<>>
  /\ transfersStore = <<>>
  /\ webhooksStore = <<>>
  /\ now = 0
  /\ req = [r \in Reqs |-> IdleReq]
  /\ returned = Null
  /\ hookRes = [status |-> 0, error |-> Null]
  /\ dwolla = [customers |-> <<>>, transfers |-> 0, events |-> 0]

\* Time passes.
Tick(d) ==
  /\ now + d <= MaxNow
  /\ now' = now + d
  /\ UNCHANGED <<dwollaConfig, dwollaClient, customersStore, transfersStore,
                 webhooksStore, req, returned, hookRes, dwolla>>

(***************************************************************************)
(* POST /api/config                                                        *)
(***************************************************************************)
\* The part of the handler after `await getValidAccessToken()`.
ConfigSucceeded(rq) == Respond(rq, 200, Null)

\* customersStore is assigned a new array: a handler suspended at an await
\* keeps its reference to a record of the old one.
Detach(rq) ==
  IF rq.sub # "none" /\ rq.loc.localCustomer # 0
    THEN [rq EXCEPT !.loc.detached = TRUE]
    ELSE rq

\* The slots after slot r moved to nx and customersStore was replaced.
Replaced(r, nx) == [q \in Reqs |-> IF q = r THEN nx ELSE Detach(req[q])]

\* Variant: reconfiguration keeps the stored records.
Kept(store) == store

\* customersStore = []; transfersStore = []; webhooksStore = [];
Cleared(store) == <<>>

PostConfig(r, key, secret) ==
  LET rq == NewReq("config", [key |-> key, secret |-> secret])
      at == [rq EXCEPT !.pc = "token", !.gvat = 1]
      fresh == Truthy(dwollaConfig.accessToken) /\ ~IsExpired
  IN
  IF ~Truthy(key) \/ ~Truthy(secret)
    THEN /\ req' = [req EXCEPT ![r] = Respond(rq, 400, ErrKeySecretRequired)]
         /\ UNCHANGED <<dwollaConfig, dwollaClient, customersStore,
                        transfersStore, webhooksStore, now, returned,
                        hookRes, dwolla>>
    ELSE /\ dwollaConfig' = [dwollaConfig EXCEPT !.key = key, !.secret = secret]
         /\ dwollaClient' = <<key, secret>>
         /\ IF fresh
              THEN /\ req' = Replaced(r, ConfigSucceeded(at))
                   /\ returned' = dwollaConfig.accessToken
                   /\ customersStore' = Cleared(customersStore)
                   /\ transfersStore' = Cleared(transfersStore)
                   /\ webhooksStore' = Cleared(webhooksStore)
              ELSE /\ req' = [req EXCEPT ![r] =
                                [at EXCEPT !.sub = "auth", !.authAs = <<key, secret>>,
                                           !.calls = Append(@, "auth")]]
                   /\ UNCHANGED <<returned, customersStore, transfersStore,
                                  webhooksStore>>
         /\ UNCHANGED <<now, hookRes, dwolla>>

(***************************************************************************)
(* The provider answers a client-credentials token request                 *)
(* (dwollaClient.auth.client() in getValidAccessToken).                    *)
(***************************************************************************)
AuthGranted(r, token, expiresIn) ==
  LET rq == req[r] IN
  /\ rq.sub = "auth"
  /\ rq.authAs \in ValidCredentials
  /\ dwollaConfig' = [dwollaConfig EXCEPT !.accessToken = token,
                                          !.expiresIn = expiresIn,
                                          !.tokenCreatedAt = now]
  /\ returned' = token
  /\ IF rq.h = "config"
       THEN /\ req' = Replaced(r, ConfigSucceeded(rq))
            /\ customersStore' = Cleared(customersStore)
            /\ transfersStore' = Cleared(transfersStore)
            /\ webhooksStore' = Cleared(webhooksStore)
       ELSE /\ req' = [req EXCEPT ![r] =
                         [rq EXCEPT !.sub = "call", !.calls = Append(@, rq.pend)]]
            /\ UNCHANGED <<customersStore, transfersStore, webhooksStore>>
  /\ UNCHANGED <<dwollaClient, now, hookRes, dwolla>>

AuthRefused(r) ==
  LET rq == req[r] IN
  /\ rq.sub = "auth"
  /\ req' = [req EXCEPT ![r] = Catch(rq, TokenError)]
  /\ UNCHANGED <<dwollaConfig, dwollaClient, customersStore, transfersStore,
                 webhooksStore, now, returned, hookRes, dwolla>>

(***************************************************************************)
(* GET /api/customers                                                      *)
(***************************************************************************)
\* Variant: the email is stored in lower case.
MapCustomerLowercased(c) ==
  [id |-> IdOf(c.self), url |-> c.self, email |-> ToLowerCase(c.email),
   phone |-> IF Truthy(c.phone) THEN c.phone ELSE Null, status |-> c.status]

\* The mapping of one provider customer to a local record.
MapCustomer(c) ==
  [id |-> IdOf(c.self), url |-> c.self, email |-> c.email,
   phone |-> IF Truthy(c.phone) THEN c.phone ELSE Null, status |-> c.status]

GetCustomers(r) ==
  LET rq == DwollaRequest(NewReq("listCustomers", NoBody), "list", "get customers") IN
  /\ req' = [req EXCEPT ![r] = rq]
  /\ returned' = ReturnedAfter(IdleReq, rq)
  /\ UNCHANGED <<dwollaConfig, dwollaClient, customersStore, transfersStore,
                 webhooksStore, now, hookRes, dwolla>>

\* Variant: the mapped customers are added to the registry.
ListedAppended(answer) ==
  customersStore \o [i \in 1..Len(answer) |-> MapCustomer(answer[i])]

\* dwollaCustomers.map(...), the value assigned to customersStore.
Listed(answer) == [i \in 1..Len(answer) |-> MapCustomer(answer[i])]

\* The provider answered the list request with the customers of answer.
CustomersListedWith(r, answer) ==
  LET rq == req[r] IN
  /\ rq.h = "listCustomers" /\ rq.sub = "call"
  /\ customersStore' = Listed(answer)
  /\ req' = Replaced(r, Respond([rq EXCEPT !.loc.all = answer], 200, Null))
  /\ UNCHANGED <<dwollaConfig, dwollaClient, transfersStore, webhooksStore,
                 now, returned, hookRes, dwolla>>

\* The usual answer: all customers the provider holds.
CustomersListed(r) == CustomersListedWith(r, dwolla.customers)

\* The provider call awaited by slot r fails (rejection or network error).
CallFailed(r, err) ==
  LET rq == req[r] IN
  /\ rq.sub = "call"
  /\ req' = [req EXCEPT ![r] = Catch(rq, err)]
  /\ UNCHANGED <<dwollaConfig, dwollaClient, customersStore, transfersStore,
                 webhooksStore, now, returned, hookRes, dwolla>>

(***************************************************************************)
(* POST /api/customers                                                     *)
(***************************************************************************)
\* Variant: the emails are compared as written.
EmailExistsExact(email) ==
  \E i \in 1..Len(customersStore) : customersStore[i].email = email

\* customersStore.some(c => c.email.toLowerCase() === email.toLowerCase())
EmailExists(email) ==
  \E i \in 1..Len(customersStore) :
     ToLowerCase(customersStore[i].email) = ToLowerCase(email)

\* Variant: phones are not compared.
PhoneNeverExists(phone) == FALSE

\* Variant: the phone is looked up in the wrong field.
PhoneExistsWrongField(phone) ==
  \E i \in 1..Len(customersStore) : customersStore[i].id = phone

\* customersStore.some(c => c.phone === phone)
PhoneExists(phone) ==
  \E i \in 1..Len(customersStore) : customersStore[i].phone = phone

PostCustomers(r, body) ==
  LET rq == NewReq("createCustomer", body)
      nx == IF ~Truthy(body.firstName) \/ ~Truthy(body.lastName) \/ body.email = <<>>
              THEN Respond(rq, 400, ErrCustomerFields)
            ELSE IF EmailExists(body.email)
              THEN Respond(rq, 400, ErrEmailExists)
            ELSE IF Truthy(body.phone) /\ PhoneExists(body.phone)
              THEN Respond(rq, 400, ErrPhoneExists)
            ELSE DwollaRequest(rq, "post", "post customers")
  IN
  /\ req' = [req EXCEPT ![r] = nx]
  /\ returned' = ReturnedAfter(rq, nx)
  /\ UNCHANGED <<dwollaConfig, dwollaClient, customersStore, transfersStore,
                 webhooksStore, now, hookRes, dwolla>>

\* The provider created the customer and answered 201 with Location url.
CustomerCreatedAt(r, status, url) ==
  LET rq == req[r]
      nx == DwollaRequest([rq EXCEPT !.loc.location = url], "get", "get customer")
  IN
  /\ rq.h = "createCustomer" /\ rq.pc = "post" /\ rq.sub = "call"
  /\ Len(dwolla.customers) < MaxCustomers
  /\ dwolla' = [dwolla EXCEPT !.customers =
                  Append(@, [self |-> url, email |-> rq.body.email,
                             phone |-> rq.body.phone, status |-> status])]
  /\ req' = [req EXCEPT ![r] = nx]
  /\ returned' = ReturnedAfter(rq, nx)
  /\ UNCHANGED <<dwollaConfig, dwollaClient, customersStore, transfersStore,
                 webhooksStore, now, hookRes>>

\* The usual answer: the Location is the url of the new customer.
CustomerCreated(r, status) ==
  CustomerCreatedAt(r, status, CustomerUrl(Len(dwolla.customers) + 1))

\* Variant: the request is answered 201 and the record is not stored.
CustomerFetchedNotStored(r) ==
  LET rq == req[r] IN
  /\ rq.h = "createCustomer" /\ rq.pc = "get" /\ rq.sub = "call"
  /\ req' = [req EXCEPT ![r] = Respond(rq, 201, Null)]
  /\ UNCHANGED <<dwollaConfig, dwollaClient, customersStore, transfersStore,
                 webhooksStore, now, returned, hookRes, dwolla>>

\* The provider answered the GET of the Location: the record is stored.
CustomerFetched(r) ==
  LET rq == req[r]
      url == rq.loc.location
      customer == CHOOSE c \in {dwolla.customers[i] : i \in 1..Len(dwolla.customers)} :
                     c.self = url
      customerRecord == [id |-> IdOf(url), url |-> url, email |-> customer.email,
                         phone |-> IF Truthy(rq.body.phone) THEN rq.body.phone ELSE Null,
                         status |-> customer.status]
  IN
  /\ rq.h = "createCustomer" /\ rq.pc = "get" /\ rq.sub = "call"
  /\ customersStore' = Append(customersStore, customerRecord)
  /\ req' = [req EXCEPT ![r] = Respond(rq, 201, Null)]
  /\ UNCHANGED <<dwollaConfig, dwollaClient, transfersStore, webhooksStore,
                 now, returned, hookRes, dwolla>>

(***************************************************************************)
(* POST /api/transfers                                                     *)
(***************************************************************************)
\* !amount: undefined and 0 are falsy.
NoAmount(amount) == ~amount.defined \/ amount.value = 0

\* Variant: the comparison is reversed.
NotPositiveReversed(amount) == amount.value >= 0

\* amount <= 0
NotPositive(amount) == amount.value <= 0

\* Variant: any status the provider reports is accepted.
SourceHasStatus(status) == status # Null

\* sourceFs.body.status !== 'verified' (negated)
SourceVerified(status) == status = "verified"

PostTransfers(r, body) ==
  LET rq == NewReq("createTransfer", body)
      nx == IF body.source = NoUrl \/ body.destination = NoUrl \/ NoAmount(body.amount)
              THEN Respond(rq, 400, ErrTransferFields)
            ELSE IF NotPositive(body.amount)
              THEN Respond(rq, 400, ErrAmount)
            ELSE DwollaRequest(rq, "source", "get source")
  IN
  /\ req' = [req EXCEPT ![r] = nx]
  /\ returned' = ReturnedAfter(rq, nx)
  /\ UNCHANGED <<dwollaConfig, dwollaClient, customersStore, transfersStore,
                 webhooksStore, now, hookRes, dwolla>>

\* The provider answered the GET of the source funding source.
SourceFetched(r, status) ==
  LET rq == [req[r] EXCEPT !.loc.srcStatus = status]
      nx == IF ~SourceVerified(status)
              THEN Respond(rq, 400, ErrSourceUnverified)
              ELSE DwollaRequest(rq, "destination", "get destination")
  IN
  /\ req[r].h = "createTransfer" /\ req[r].pc = "source" /\ req[r].sub = "call"
  /\ req' = [req EXCEPT ![r] = nx]
  /\ returned' = ReturnedAfter(rq, nx)
  /\ UNCHANGED <<dwollaConfig, dwollaClient, customersStore, transfersStore,
                 webhooksStore, now, hookRes, dwolla>>

\* The provider answered the GET of the destination funding source; owner is
\* its _links.customer.href, NoUrl when the link is absent.
DestinationFetched(r, status, owner) ==
  LET rq == [req[r] EXCEPT !.loc.dstStatus = status, !.loc.owner = owner]
      nx == IF status # "verified"
              THEN IF ~rq.body.allowUnverified
                     THEN Respond(rq, 400, ErrDestUnverified)
                   ELSE IF owner # NoUrl
                     THEN DwollaRequest(rq, "owner", "get owner")
                   ELSE DwollaRequest(rq, "transfer", "post transfers")
              ELSE DwollaRequest(rq, "transfer", "post transfers")
  IN
  /\ req[r].h = "createTransfer" /\ req[r].pc = "destination" /\ req[r].sub = "call"
  /\ req' = [req EXCEPT ![r] = nx]
  /\ returned' = ReturnedAfter(rq, nx)
  /\ UNCHANGED <<dwollaConfig, dwollaClient, customersStore, transfersStore,
                 webhooksStore, now, hookRes, dwolla>>

\* The provider answered the GET of the customer owning the destination.
OwnerFetched(r, status) ==
  LET rq == [req[r] EXCEPT !.loc.ownerStatus = status]
      nx == IF status # "verified"
              THEN Respond(rq, 400, ErrOwnerUnverified)
              ELSE DwollaRequest(rq, "transfer", "post transfers")
  IN
  /\ req[r].h = "createTransfer" /\ req[r].pc = "owner" /\ req[r].sub = "call"
  /\ req' = [req EXCEPT ![r] = nx]
  /\ returned' = ReturnedAfter(rq, nx)
  /\ UNCHANGED <<dwollaConfig, dwollaClient, customersStore, transfersStore,
                 webhooksStore, now, hookRes, dwolla>>

\* The provider created the transfer and answered 201 with its Location.
TransferCreated(r) ==
  LET rq == req[r]
      url == TransferUrl(dwolla.transfers + 1)
      nx == DwollaRequest([rq EXCEPT !.loc.location = url], "details", "get transfer")
  IN
  /\ rq.h = "createTransfer" /\ rq.pc = "transfer" /\ rq.sub = "call"
  /\ dwolla.transfers < MaxTransfers
  /\ dwolla' = [dwolla EXCEPT !.transfers = @ + 1]
  /\ req' = [req EXCEPT ![r] = nx]
  /\ returned' = ReturnedAfter(rq, nx)
  /\ UNCHANGED <<dwollaConfig, dwollaClient, customersStore, transfersStore,
                 webhooksStore, now, hookRes>>

\* The provider answered the GET of the Location: the record is stored.
TransferFetched(r, status) ==
  LET rq == req[r]
      url == rq.loc.location
      transferRecord == [id |-> IdOf(url), url |-> url, status |-> status,
                         sourceFundingSourceUrl |-> rq.body.source,
                         destinationFundingSourceUrl |-> rq.body.destination]
  IN
  /\ rq.h = "createTransfer" /\ rq.pc = "details" /\ rq.sub = "call"
  /\ transfersStore' = Append(transfersStore, transferRecord)
  /\ req' = [req EXCEPT ![r] = Respond(rq, 201, Null)]
  /\ UNCHANGED <<dwollaConfig, dwollaClient, customersStore, webhooksStore,
                 now, returned, hookRes, dwolla>>

(***************************************************************************)
(* POST /api/webhooks, DELETE /api/webhooks                                *)
(***************************************************************************)
\* A topic is [type, words]: a string (its '_'-separated words), a number,
\* or undefined.  Links are [present, customer, resource].
Topic(words) == [type |-> "string", words |-> words]
NumberTopic == [type |-> "number", words |-> <<>>]
NoTopic == [type |-> "undefined", words |-> <<>>]
Links(customer, resource) == [present |-> TRUE, customer |-> customer, resource |-> resource]
NoLinks == [present |-> FALSE, customer |-> NoUrl, resource |-> NoUrl]

TopicTruthy(topic) ==
  \/ topic.type = "number"
  \/ topic.type = "string" /\ topic.words # <<>>

\* store.find(x => x.url === url): index of the first match, 0 if none.
FindByUrl(store, url) ==
  IF \E i \in 1..Len(store) : store[i].url = url
    THEN CHOOSE i \in 1..Len(store) :
           /\ store[i].url = url
           /\ \A j \in 1..(i - 1) : store[j].url # url
    ELSE 0

\* Variant: the topic's last word is stored as the status.
CustomerStatusFromTopic(words, status) == words[Len(words)]

\* The four `if (topic === ...) customer.status = ...` lines.
CustomerStatusFor(words, status) ==
  IF words = <<"customer", "verified">> THEN "verified"
  ELSE IF words = <<"customer", "suspended">> THEN "suspended"
  ELSE IF words = <<"customer", "verification", "document", "needed">> THEN "document"
  ELSE IF words = <<"customer", "reverification", "needed">> THEN "retry"
  ELSE status

\* Variant: the transfer topic's last word is stored as the status.
TransferStatusFromTopic(words, status) ==
  IF words = <<"transfer", "completed">> THEN "completed"
  ELSE IF words = <<"transfer", "failed">> THEN "failed"
  ELSE IF words = <<"transfer", "cancelled">> THEN "cancelled"
  ELSE status

TransferStatusFor(words, status) ==
  IF words = <<"transfer", "completed">> THEN "processed"
  ELSE IF words = <<"transfer", "failed">> THEN "failed"
  ELSE IF words = <<"transfer", "cancelled">> THEN "cancelled"
  ELSE status

\* updateLocalStoresFromWebhook throws when topic has no startsWith method.
UpdateThrows(event) == event.topic.type # "string"

CustomersAfterWebhook(event) ==
  LET i == FindByUrl(customersStore, event.links.customer) IN
  IF StartsWith(event.topic.words, "customer") /\ event.links.customer # NoUrl /\ i # 0
    THEN [customersStore EXCEPT ![i].status = CustomerStatusFor(event.topic.words, @)]
    ELSE customersStore

\* Variant: a cancelled transfer is taken out of the registry.
TransfersWithoutCancelled(event) ==
  LET i == FindByUrl(transfersStore, event.links.resource) IN
  IF StartsWith(event.topic.words, "transfer") /\ event.links.resource # NoUrl /\ i # 0
    THEN IF event.topic.words = <<"transfer", "cancelled">>
           THEN [j \in 1..(Len(transfersStore) - 1) |->
                   IF j < i THEN transfersStore[j] ELSE transfersStore[j + 1]]
           ELSE [transfersStore EXCEPT ![i].status = TransferStatusFor(event.topic.words, @)]
    ELSE transfersStore

TransfersAfterWebhook(event) ==
  LET i == FindByUrl(transfersStore, event.links.resource) IN
  IF StartsWith(event.topic.words, "transfer") /\ event.links.resource # NoUrl /\ i # 0
    THEN [transfersStore EXCEPT ![i].status = TransferStatusFor(event.topic.words, @)]
    ELSE transfersStore

\* Variant: the new record is appended and the tail is kept.
KeepTail(record) ==
  LET all == Append(webhooksStore, record) IN
  IF Len(all) > WebhookLimit THEN SubSeq(all, 2, Len(all)) ELSE all

\* webhooksStore.unshift(record), then slice(0, 100) when longer than 100.
KeepRecent(record) ==
  LET all == <<record>> \o webhooksStore IN
  IF Len(all) > WebhookLimit THEN SubSeq(all, 1, WebhookLimit) ELSE all

PostWebhooks(event) ==
  LET webhookRecord ==
        [id |-> IF event.hasId THEN <<"event", dwolla.events + 1>>
                               ELSE <<"local", now>>,
         topic |-> event.topic, links |-> event.links]
      update == TopicTruthy(event.topic) /\ event.links.present
  IN
  /\ webhooksStore' = KeepRecent(webhookRecord)
  /\ dwolla' = [dwolla EXCEPT !.events = @ + 1]
  /\ IF update /\ UpdateThrows(event)
       THEN /\ hookRes' = [status |-> 500, error |-> ErrWebhook]
            /\ UNCHANGED <<customersStore, transfersStore>>
       ELSE /\ hookRes' = [status |-> 200, error |-> Null]
            /\ customersStore' = IF update THEN CustomersAfterWebhook(event)
                                           ELSE customersStore
            /\ transfersStore' = IF update THEN TransfersAfterWebhook(event)
                                           ELSE transfersStore
  /\ UNCHANGED <<dwollaConfig, dwollaClient, now, req, returned>>

DeleteWebhooks ==
  /\ webhooksStore' = <<>>
  /\ UNCHANGED <<dwollaConfig, dwollaClient, customersStore, transfersStore,
                 now, req, returned, hookRes, dwolla>>

(***************************************************************************)
(* Inputs and provider answers of the specifications.                      *)
(***************************************************************************)
Steps == {30000}                         \* clock advances (ms)
Keys == {Null, "key1", "key2"}
Secrets == {"secret1"}
Tokens == {"tokenA", "tokenB"}           \* access_token values
Lifetimes == {60, 120}                   \* expires_in values (seconds)
LongLifetime == {3600}
Statuses == {"unverified", "verified"}   \* customer / funding source status

FsA == <<"funding-sources", "fsA">>
FsB == <<"funding-sources", "fsB">>
OwnerUrl == <<"customers", "owner">>

CustomerBodies ==
  [firstName : {"Ann"}, lastName : {"Lee"},
   email : {<<"a", "b">>, <<"A", "b">>, <<"b", "b">>},
   phone : {Null, "555", "777"}]
  \cup [firstName : {Null, "Ann"}, lastName : {Null, "Lee"},
        email : {<<>>, <<"A", "b">>}, phone : {Null}]

Amount(v) == [defined |-> TRUE, value |-> v]
Undefined == [defined |-> FALSE, value |-> 0]
TransferBodies ==
  [source : {NoUrl, FsA}, destination : {FsB},
   amount : {Undefined, Amount(-5), Amount(0), Amount(10)},
   allowUnverified : BOOLEAN]

(***************************************************************************)
(* Token specification: configuration, the clock, and one handler that    *)
(* goes through dwollaRequest.  Requests are handled one at a time.       *)
(***************************************************************************)
NextToken ==
  \/ \E d \in Steps : Tick(d)
  \/ NoneInFlight /\ \E k \in Keys, s \in Secrets : PostConfig(1, k, s)
  \/ \E t \in Tokens, e \in Lifetimes : AuthGranted(1, t, e)
  \/ AuthRefused(1)
  \/ NoneInFlight /\ GetCustomers(1)
  \/ CustomersListed(1)
  \/ \E err \in ProviderErrors : CallFailed(1, err)

SpecToken == Init /\ [][NextToken]_vars

(***************************************************************************)
(* Customer specification: create and list customers, one at a time.      *)
(***************************************************************************)
NextCustomers ==
  \/ NoneInFlight /\ PostConfig(1, "key1", "secret1")
  \/ \E e \in LongLifetime : AuthGranted(1, "tokenA", e)
  \/ AuthRefused(1)
  \/ NoneInFlight /\ \E body \in CustomerBodies : PostCustomers(1, body)
  \/ CustomerCreated(1, "unverified")
  \/ CustomerFetched(1)
  \/ NoneInFlight /\ GetCustomers(1)
  \/ CustomersListed(1)
  \/ \E err \in ProviderErrors : CallFailed(1, err)

SpecCustomers == Init /\ [][NextCustomers]_vars

(***************************************************************************)
(* Creation specification: the customer registry is written by            *)
(* create-customer requests only (and cleared by reconfiguration).        *)
(***************************************************************************)
NextCreate ==
  \/ NoneInFlight /\ PostConfig(1, "key1", "secret1")
  \/ \E e \in LongLifetime : AuthGranted(1, "tokenA", e)
  \/ AuthRefused(1)
  \/ NoneInFlight /\ \E body \in CustomerBodies : PostCustomers(1, body)
  \/ CustomerCreated(1, "unverified")
  \/ CustomerFetched(1)
  \/ \E err \in ProviderErrors : CallFailed(1, err)

SpecCreate == Init /\ [][NextCreate]_vars

(***************************************************************************)
(* Transfer specification: create transfers, one at a time.                *)
(***************************************************************************)
NextTransfers ==
  \/ NoneInFlight /\ PostConfig(1, "key1", "secret1")
  \/ \E e \in LongLifetime : AuthGranted(1, "tokenA", e)
  \/ AuthRefused(1)
  \/ NoneInFlight /\ \E body \in TransferBodies : PostTransfers(1, body)
  \/ \E st \in Statuses : SourceFetched(1, st)
  \/ \E st \in Statuses, owner \in {NoUrl, OwnerUrl} : DestinationFetched(1, st, owner)
  \/ \E st \in Statuses : OwnerFetched(1, st)
  \/ TransferCreated(1)
  \/ \E st \in {"pending", "processed"} : TransferFetched(1, st)
  \/ \E err \in ProviderErrors : CallFailed(1, err)

SpecTransfers == Init /\ [][NextTransfers]_vars

(***************************************************************************)
(* Event specification: webhooks arriving between requests that fill the  *)
(* customer and transfer registries.                                       *)
(***************************************************************************)
EventTopics ==
  {Topic(<<"transfer", "completed">>), Topic(<<"transfer", "failed">>),
   Topic(<<"transfer", "cancelled">>), Topic(<<"transfer", "created">>),
   Topic(<<"customer", "verified">>), NumberTopic}
EventLinks ==
  {NoLinks, Links(NoUrl, TransferUrl(1)), Links(NoUrl, TransferUrl(MaxTransfers + 1)),
   Links(CustomerUrl(1), NoUrl)}
\* Transfer topics with a transfer link, the customer topic with the
\* customer link, the numeric topic without a customer link, and one event
\* without links.
Events ==
  {ev \in [hasId : {TRUE}, topic : EventTopics, links : EventLinks] :
     \/ StartsWith(ev.topic.words, "transfer") /\ ev.links.resource # NoUrl
     \/ ev.topic = Topic(<<"transfer", "completed">>) /\ ~ev.links.present
     \/ ev.topic = Topic(<<"customer", "verified">>) /\ ev.links.customer # NoUrl
     \/ ev.topic = NumberTopic /\ ev.links.customer = NoUrl}

EventCustomer == [firstName |-> "Ann", lastName |-> "Lee", email |-> <<"a", "b">>,
                  phone |-> Null]
EventTransfer == [source |-> FsA, destination |-> FsB, amount |-> Amount(10),
                  allowUnverified |-> FALSE]

NextEvents ==
  \/ NoneInFlight /\ PostConfig(1, "key1", "secret1")
  \/ \E e \in LongLifetime : AuthGranted(1, "tokenA", e)
  \/ NoneInFlight /\ PostCustomers(1, EventCustomer)
  \/ CustomerCreated(1, "unverified")
  \/ CustomerFetched(1)
  \/ NoneInFlight /\ PostTransfers(1, EventTransfer)
  \/ SourceFetched(1, "verified")
  \/ DestinationFetched(1, "verified", OwnerUrl)
  \/ TransferCreated(1)
  \/ TransferFetched(1, "pending")
  \/ NoneInFlight /\ dwolla.events < MaxEvents /\ \E ev \in Events : PostWebhooks(ev)

SpecEvents == Init /\ [][NextEvents]_vars

(***************************************************************************)
(* Retention specification: webhook deliveries and clearing only.          *)
(***************************************************************************)
PlainEvents == [hasId : {TRUE}, topic : {Topic(<<"customer", "created">>)},
                links : {NoLinks}]

NextRetention ==
  \/ dwolla.events < MaxDeliveries /\ \E ev \in PlainEvents : PostWebhooks(ev)
  \/ DeleteWebhooks

SpecRetention == Init /\ [][NextRetention]_vars

(***************************************************************************)
(* Properties.                                                             *)
(***************************************************************************)
\* Slot r starts a new request in this step.
Starts(r) == req[r].sub = "none" /\ req'[r] # req[r]

\* Slot r calls getValidAccessToken in this step.
Invokes(r) ==
  IF req[r].sub = "none"
    THEN req'[r] # req[r] /\ req'[r].gvat = 1
    ELSE req'[r].gvat = req[r].gvat + 1

\* Provider calls slot r had issued before this step.
CallsBefore(r) == IF req[r].sub = "none" THEN <<>> ELSE req[r].calls

\* A token is held and its age is below its lifetime minus 60 seconds.
TokenFresh ==
  /\ dwollaConfig.accessToken # Null
  /\ (now - dwollaConfig.tokenCreatedAt)
        < (dwollaConfig.expiresIn - 60) * 1000

\* C1: a getValidAccessToken call made while the held token is younger than
\* its lifetime minus 60 seconds issues no token request, leaves the held
\* token alone and returns the value the previous call returned.
TokenReused ==
  [][\A r \in Reqs :
       (Invokes(r) /\ TokenFresh) =>
          /\ req'[r].calls \in {CallsBefore(r), Append(CallsBefore(r), req'[r].pend)}
          /\ req'[r].sub # "auth"
          /\ dwollaConfig'.accessToken = dwollaConfig.accessToken
          /\ dwollaConfig'.tokenCreatedAt = dwollaConfig.tokenCreatedAt
          /\ returned' = dwollaConfig.accessToken
          /\ returned' = returned]_vars

\* A request was served with a token obtained earlier, without a token request.
TokenReusedWitness ==
  /\ req[1].h = "listCustomers" /\ req[1].status = 200
  /\ req[1].calls = <<"get customers">>
  /\ now > dwollaConfig.tokenCreatedAt

\* C2 as stated: a dwollaRequest made while no usable token is held always
\* issues one token request first.
RefreshAlwaysIssued ==
  [][\A r \in Reqs :
       (Invokes(r) /\ req'[r].h # "config" /\ ~TokenFresh) =>
          /\ req'[r].sub = "auth"
          /\ req'[r].calls = Append(CallsBefore(r), "auth")]_vars

\* C2, amended: with a key and a secret stored, a dwollaRequest made while no
\* usable token is held issues one token request and nothing else; when the
\* token is granted the wrapped call is issued next and no second token
\* request is made; when it is refused the wrapped call is never issued.
RefreshBeforeRequest ==
  [][\A r \in Reqs :
       /\ (Invokes(r) /\ req'[r].h # "config" /\ Configured /\ ~TokenFresh) =>
             /\ req'[r].sub = "auth"
             /\ req'[r].calls = Append(CallsBefore(r), "auth")
       /\ (req[r].sub = "auth" /\ req[r].h # "config" /\ req'[r] # req[r]) =>
             \/ /\ req'[r].sub = "call"
                /\ req'[r].calls = Append(req[r].calls, req[r].pend)
                /\ dwollaConfig'.accessToken # Null
                /\ dwollaConfig'.tokenCreatedAt = now
             \/ /\ req'[r].pc = "done"
                /\ req'[r].calls = req[r].calls
                /\ dwollaConfig' = dwollaConfig]_vars

\* A token request is in flight for a dwollaRequest although a token is held.
RefreshBeforeRequestWitness ==
  /\ req[1].h = "listCustomers" /\ req[1].sub = "auth"
  /\ req[1].calls = <<"auth">>
  /\ dwollaConfig.accessToken # Null
  /\ now > dwollaConfig.tokenCreatedAt

\* Some record of the customer registry has this email, ignoring case.
EmailRegistered(email) ==
  \E i \in 1..Len(customersStore) :
     ToLowerCase(customersStore[i].email) = ToLowerCase(email)

Registries == <<customersStore, transfersStore, webhooksStore>>

\* C3 as stated: a create-customer request whose email is registered
\* (ignoring case) is answered 400 "A customer with this email already
\* exists", issues no provider call and leaves the registry unchanged.
DuplicateEmailAlwaysNamed ==
  [][\A r \in Reqs :
       (Starts(r) /\ req'[r].h = "createCustomer"
          /\ EmailRegistered(req'[r].body.email)) =>
          /\ req'[r].pc = "done" /\ req'[r].status = 400
          /\ req'[r].error = ErrEmailExists
          /\ req'[r].calls = <<>>
          /\ customersStore' = customersStore]_vars

\* C3, amended: a create-customer request with firstName and lastName present
\* whose email is registered (ignoring case) is answered 400 "A customer with
\* this email already exists", issues no provider call and leaves the
\* registries unchanged; without firstName or lastName it is answered 400
\* with the required-fields error, again without provider call or change.
DuplicateEmailRejected ==
  [][\A r \in Reqs :
       (Starts(r) /\ req'[r].h = "createCustomer"
          /\ EmailRegistered(req'[r].body.email)) =>
          /\ req'[r].pc = "done" /\ req'[r].status = 400
          /\ req'[r].error =
               IF req'[r].body.firstName # Null /\ req'[r].body.lastName # Null
                 THEN ErrEmailExists ELSE ErrCustomerFields
          /\ req'[r].calls = <<>> /\ req'[r].gvat = 0
          /\ Registries' = Registries
          /\ dwolla' = dwolla]_vars

\* A create was rejected for an email registered in another letter case.
DuplicateEmailRejectedWitness ==
  /\ req[1].h = "createCustomer" /\ req[1].error = ErrEmailExists
  /\ \E i \in 1..Len(customersStore) :
        /\ customersStore[i].email # req[1].body.email
        /\ ToLowerCase(customersStore[i].email) = ToLowerCase(req[1].body.email)

\* C4: a create-transfer request whose amount is <= 0 is answered 400 in the
\* step that receives it, before any provider call and without changing the
\* transfer registry; a negative amount with source and destination present
\* gets "Amount must be greater than 0".
NonPositiveAmountRejected ==
  [][\A r \in Reqs :
       (Starts(r) /\ req'[r].h = "createTransfer"
          /\ req'[r].body.amount.defined /\ req'[r].body.amount.value <= 0) =>
          /\ req'[r].pc = "done" /\ req'[r].status = 400
          /\ req'[r].calls = <<>> /\ req'[r].gvat = 0
          /\ transfersStore' = transfersStore
          /\ dwolla' = dwolla
          /\ (req'[r].body.amount.value < 0 /\ req'[r].body.source # NoUrl
                /\ req'[r].body.destination # NoUrl)
               => req'[r].error = ErrAmount]_vars

\* A transfer of a negative amount was rejected after the server was configured.
NonPositiveAmountRejectedWitness ==
  /\ Configured /\ dwollaConfig.accessToken # Null
  /\ req[1].h = "createTransfer" /\ req[1].body.amount.value < 0
  /\ req[1].error = ErrAmount

Issued(rq, call) == \E i \in 1..Len(rq.calls) : rq.calls[i] = call

\* C5: the transfer POST is issued for a destination that is not verified
\* only if allowUnverified is set and the owning customer was fetched and is
\* verified.
UnverifiedDestinationNeedsVerifiedOwner ==
  \A r \in Reqs :
     (req[r].h = "createTransfer" /\ Issued(req[r], "post transfers")
        /\ req[r].loc.dstStatus # "verified") =>
        /\ req[r].body.allowUnverified
        /\ Issued(req[r], "get owner")
        /\ req[r].loc.ownerStatus = "verified"

\* C6: the destination fetch and the transfer POST are issued only after the
\* source was fetched with status verified; a request whose source fetch
\* failed or returned another status is answered 400 without those calls,
\* and no step of such a request changes the transfer registry.
SourceMustBeVerified ==
  /\ [](\A r \in Reqs :
          req[r].h = "createTransfer" =>
             /\ (Issued(req[r], "get destination") \/ Issued(req[r], "post transfers")
                   \/ req[r].status = 201) =>
                  /\ req[r].loc.srcStatus = "verified"
                  /\ req[r].calls[IF req[r].calls[1] = "auth" THEN 2 ELSE 1] = "get source"
             /\ (req[r].pc = "done" /\ req[r].gvat >= 1
                   /\ req[r].loc.srcStatus # "verified") =>
                  /\ req[r].status = 400
                  /\ ~Issued(req[r], "get destination")
                  /\ ~Issued(req[r], "post transfers"))
  /\ [][\A r \in Reqs :
          (req'[r].h = "createTransfer" /\ req'[r] # req[r]
             /\ req'[r].loc.srcStatus # "verified") =>
             /\ transfersStore' = transfersStore
             /\ dwolla' = dwolla]_vars

\* A transfer was refused because its source is not verified, and another
\* because its source could not be fetched.
SourceMustBeVerifiedWitness ==
  /\ req[1].h = "createTransfer" /\ req[1].error = ErrSourceUnverified
  /\ req[1].loc.srcStatus = "unverified"
  /\ Issued(req[1], "get source")

\* A webhook is delivered in this step.
Delivered == dwolla'.events = dwolla.events + 1

\* C7: the webhook store never holds more than 100 records; a delivery into
\* a store of 100 puts the new record first, drops the last one and keeps the
\* other 99 in order.
WebhooksBounded ==
  /\ [](Len(webhooksStore) <= 100)
  /\ [][(Delivered /\ Len(webhooksStore) = 100) =>
          /\ Len(webhooksStore') = 100
          /\ webhooksStore'[1].id = <<"event", dwolla'.events>>
          /\ \A i \in 1..99 : webhooksStore'[i + 1] = webhooksStore[i]]_vars

\* The store is full and its oldest record is not the first one delivered.
WebhooksBoundedWitness ==
  /\ Len(webhooksStore) = 100
  /\ webhooksStore[1].id = <<"event", 101>>
  /\ webhooksStore[100].id = <<"event", 2>>

\* C8: no webhook request is answered with an error status.
WebhookAlwaysAcknowledged == hookRes.status \in {0, 200}

\* The status a transfer topic stands for.
StatusOfTopic(words) ==
  CASE words = <<"transfer", "completed">> -> "processed"
    [] words = <<"transfer", "failed">> -> "failed"
    [] words = <<"transfer", "cancelled">> -> "cancelled"

\* C9: a transfer_completed / transfer_failed / transfer_cancelled webhook
\* whose resource link is the url of a transfer record sets that record's
\* status to processed / failed / cancelled and changes nothing else in the
\* customer and transfer registries; when no record has that url both
\* registries are unchanged.
TransferWebhookPatchesOne ==
  [][LET ev == webhooksStore'[1]
         words == ev.topic.words
         href == ev.links.resource
     IN
     (Delivered /\ ev.topic.type = "string" /\ ev.links.present
        /\ words \in {<<"transfer", "completed">>, <<"transfer", "failed">>,
                      <<"transfer", "cancelled">>}) =>
        /\ hookRes'.status = 200
        /\ customersStore' = customersStore
        /\ \A i \in 1..Len(transfersStore) :
              transfersStore[i].url = href =>
                 transfersStore' =
                    [transfersStore EXCEPT ![i].status = StatusOfTopic(words)]
        /\ (\A i \in 1..Len(transfersStore) : transfersStore[i].url # href) =>
              transfersStore' = transfersStore]_vars

\* A webhook moved the first of two transfers to processed; the second
\* transfer and the customer kept their status.
TransferWebhookPatchesOneWitness ==
  /\ Len(transfersStore) = 2 /\ Len(customersStore) = 1
  /\ transfersStore[1].status = "processed"
  /\ transfersStore[2].status = "pending"
  /\ customersStore[1].status = "unverified"
  /\ webhooksStore # <<>>
  /\ webhooksStore[1].topic = Topic(<<"transfer", "completed">>)
  /\ webhooksStore[1].links.resource = transfersStore[1].url

\* C10: no two records of the customer registry have emails equal ignoring
\* case, and no two have the same non-null phone.
CustomersUnique ==
  \A i, j \in 1..Len(customersStore) :
     i # j =>
        /\ ToLowerCase(customersStore[i].email) # ToLowerCase(customersStore[j].email)
        /\ customersStore[i].phone # Null =>
              customersStore[i].phone # customersStore[j].phone

\* Two customers with phones are registered and a third request was refused
\* for its email.
CustomersUniqueWitness ==
  /\ Len(customersStore) = 2
  /\ customersStore[1].phone # Null /\ customersStore[2].phone # Null
  /\ req[1].h = "createCustomer" /\ req[1].error = ErrEmailExists

(***************************************************************************)
(* Race specification: two create-customer requests in flight at once.     *)
(* Each await of a handler lets the other request run.                     *)
(***************************************************************************)
RaceBodies ==
  [firstName : {"Ann"}, lastName : {"Lee"},
   email : {<<"a", "b">>, <<"A", "b">>, <<"b", "b">>}, phone : {Null}]

NextRace ==
  \/ NoneInFlight /\ PostConfig(1, "key1", "secret1")
  \/ \E r \in Reqs, e \in LongLifetime : AuthGranted(r, "tokenA", e)
  \/ \E r \in Reqs, body \in RaceBodies : req[r].sub = "none" /\ PostCustomers(r, body)
  \/ \E r \in Reqs : CustomerCreated(r, "unverified")
  \/ \E r \in Reqs : CustomerFetched(r)
  \/ \E r \in Reqs, err \in ProviderErrors : CallFailed(r, err)

SpecRace == Init /\ [][NextRace]_vars

\* Slot r is past the duplicate check of POST /api/customers and has not
\* answered yet.
PastDuplicateCheck(r) == req[r].h = "createCustomer" /\ req[r].sub # "none"

\* C11: of two concurrent create-customer requests with the same email
\* (ignoring case) at most one is past the duplicate check before the other
\* has answered, and the registry never holds two records for one email.
SameEmailSerialized ==
  /\ \A r, q \in Reqs :
        (r # q /\ PastDuplicateCheck(r) /\ PastDuplicateCheck(q)) =>
           ToLowerCase(req[r].body.email) # ToLowerCase(req[q].body.email)
  /\ \A i, j \in 1..Len(customersStore) :
        i # j => ToLowerCase(customersStore[i].email)
                   # ToLowerCase(customersStore[j].email)

\* C12: while no key or no secret is stored, a handler's call of
\* dwollaRequest fails at once with the configuration error: the request is
\* answered by the handler's catch block, no token request and no provider
\* call is issued, and the stored credentials and token are unchanged.
ConfigurationErrorFirst ==
  [][\A r \in Reqs :
       (Invokes(r) /\ req'[r].h # "config"
          /\ (dwollaConfig.key = Null \/ dwollaConfig.secret = Null)) =>
          /\ req'[r].pc = "done" /\ req'[r].sub = "none"
          /\ req'[r].calls = CallsBefore(r)
          /\ req'[r].h = "createCustomer" =>
                (req'[r].status = 400 /\ req'[r].error = ErrNotConfigured)
          /\ req'[r].h = "listCustomers" =>
                (req'[r].status = 500 /\ req'[r].error = ErrListCustomers)
          /\ dwollaConfig' = dwollaConfig
          /\ returned' = returned
          /\ dwolla' = dwolla
          /\ Registries' = Registries]_vars

\* A create-customer request sent before any configuration was answered
\* with the configuration error.
ConfigurationErrorFirstWitness ==
  /\ dwollaConfig.key = Null /\ dwollaConfig.accessToken = Null
  /\ req[1].h = "createCustomer" /\ req[1].gvat = 1
  /\ req[1].status = 400 /\ req[1].error = ErrNotConfigured
  /\ req[1].calls = <<>>

\* C13: every POST /api/config answered with success has, during that
\* request, issued a token request to the provider with the key and secret it
\* submitted.
ConfigSuccessObtainsToken ==
  \A r \in Reqs :
     (req[r].h = "config" /\ req[r].status = 200) =>
        /\ Issued(req[r], "auth")
        /\ req[r].authAs = <<req[r].body.key, req[r].body.secret>>

\* Slot r answers a POST /api/config with success in this step.
ConfigAnswers(r) ==
  /\ req'[r].h = "config" /\ req'[r].status = 200
  /\ req[r].sub = "auth" \/ (req[r].sub = "none" /\ ~Delivered)

TransfersKept ==
  \A i \in 1..Len(transfersStore) :
     \E j \in 1..Len(transfersStore') :
        /\ transfersStore'[j].id = transfersStore[i].id
        /\ transfersStore'[j] =
             [transfersStore[i] EXCEPT !.status = transfersStore'[j].status]

\* C15 as stated: a transfer record, once appended, is in the registry in
\* every later state, whatever operations follow.
TransfersNeverRemoved == [][TransfersKept]_vars

\* C15, amended: a transfer record stays in the registry, with at most its
\* status changed, across every step that is not the success of a
\* POST /api/config.
TransfersKeptUntilReset ==
  [][(\A r \in Reqs : ~ConfigAnswers(r)) => TransfersKept]_vars

\* The first of two transfers was cancelled by a webhook and is still
\* registered, before the second.
TransfersKeptUntilResetWitness ==
  /\ Len(transfersStore) = 2
  /\ transfersStore[1].status = "cancelled"
  /\ transfersStore[1].id # transfersStore[2].id
  /\ req[1].h = "createTransfer" /\ req[1].status = 201

(***************************************************************************)
(* Routing of GET requests: Express tries the routes in the order of their *)
(* registration and runs the first one whose pattern matches the path.     *)
(***************************************************************************)
Param == ":id"  \* a named segment of a route pattern

\* The app.get registrations of server.js, in source order.
GetRoutes ==
  << [pattern |-> <<"api", "config", "status">>, h |-> "configStatus"],
     [pattern |-> <<"api", "customers">>, h |-> "listCustomers"],
     [pattern |-> <<"api", "customers", Param>>, h |-> "getCustomer"],
     [pattern |-> <<"api", "customers", Param, "funding-sources">>,
      h |-> "listFundingSources"],
     [pattern |-> <<"api", "me">>, h |-> "me"],
     [pattern |-> <<"api", "me", "funding-sources">>, h |-> "myFundingSources"],
     [pattern |-> <<"api", "me", "balance">>, h |-> "myBalance"],
     [pattern |-> <<"api", "transfers">>, h |-> "listTransfers"],
     [pattern |-> <<"api", "transfers", Param>>, h |-> "getTransfer"],
     [pattern |-> <<"api", "webhooks">>, h |-> "listWebhooks"],
     [pattern |-> <<"api", "customers", "eligible">>, h |-> "eligible"] >>

\* A named segment matches any non-empty segment, any other only itself.
Matches(pattern, path) ==
  /\ Len(pattern) = Len(path)
  /\ \A i \in 1..Len(pattern) :
        \/ pattern[i] = path[i]
        \/ pattern[i] = Param /\ path[i] # ""

\* The handler that answers a GET of path: the first matching route.
Route(path) ==
  IF \E i \in 1..Len(GetRoutes) : Matches(GetRoutes[i].pattern, path)
    THEN GetRoutes[CHOOSE i \in 1..Len(GetRoutes) :
                     /\ Matches(GetRoutes[i].pattern, path)
                     /\ \A j \in 1..(i - 1) : ~Matches(GetRoutes[j].pattern, path)].h
    ELSE "notFound"

(***************************************************************************)
(* GET /api/customers/:id                                                  *)
(***************************************************************************)
\* Variant: an unknown id falls back to the first record.
FindByIdOrFirst(store, id) ==
  IF \E i \in 1..Len(store) : store[i].id = id
    THEN CHOOSE i \in 1..Len(store) :
           /\ store[i].id = id
           /\ \A j \in 1..(i - 1) : store[j].id # id
    ELSE IF Len(store) > 0 THEN 1 ELSE 0

\* customersStore.find(c => c.id === id): position of the first match, 0 if none.
FindById(store, id) ==
  IF \E i \in 1..Len(store) : store[i].id = id
    THEN CHOOSE i \in 1..Len(store) :
           /\ store[i].id = id
           /\ \A j \in 1..(i - 1) : store[j].id # id
    ELSE 0

\* Status the provider reports for the customer at url.
ProviderStatus(url) ==
  LET c == CHOOSE c \in {dwolla.customers[i] : i \in 1..Len(dwolla.customers)} :
              c.self = url
  IN c.status

\* localCustomer.status = status: the record is changed in the registry unless
\* the registry array was replaced since the handler looked the record up.
StatusAssigned(rq, status) ==
  IF rq.loc.detached
    THEN customersStore
    ELSE [customersStore EXCEPT ![rq.loc.localCustomer].status = status]

GetCustomer(r, path) ==
  LET id == path[3]
      rq == NewReq("getCustomer", [path |-> path, id |-> id])
      i == FindById(customersStore, id)
      nx == IF i = 0
              THEN Respond(rq, 404, ErrCustomerNotFound)
              ELSE DwollaRequest([rq EXCEPT !.loc.localCustomer = i,
                                            !.loc.location = customersStore[i].url],
                                 "get", "get customer")
  IN
  /\ req' = [req EXCEPT ![r] = nx]
  /\ returned' = ReturnedAfter(rq, nx)
  /\ UNCHANGED <<dwollaConfig, dwollaClient, customersStore, transfersStore,
                 webhooksStore, now, hookRes, dwolla>>

\* The provider answered the GET of the customer.
CustomerRefreshed(r) ==
  LET rq == req[r]
      status == ProviderStatus(rq.loc.location)
  IN
  /\ rq.h = "getCustomer" /\ rq.pc = "get" /\ rq.sub = "call"
  /\ customersStore' = StatusAssigned(rq, status)
  /\ req' = [req EXCEPT ![r] = Respond([rq EXCEPT !.loc.newStatus = status], 200, Null)]
  /\ UNCHANGED <<dwollaConfig, dwollaClient, transfersStore, webhooksStore,
                 now, returned, hookRes, dwolla>>

(***************************************************************************)
(* GET /api/customers/eligible                                             *)
(***************************************************************************)
\* req.query.includeUnverified === 'true'
IncludeUnverified(rq) == rq.body.includeUnverified = "true"

\* Variant: removed funding sources are kept.
AnySource(fs) == TRUE

\* !fs.removed
NotRemoved(fs) == ~fs.removed

MapFundingSource(fs) ==
  [id |-> IdOf(fs.self), url |-> fs.self, name |-> fs.name, status |-> fs.status]

\* The entry pushed to eligibleCustomers.
EligibleRecord(c, sources) ==
  [id |-> IdOf(c.self), url |-> c.self, email |-> c.email,
   phone |-> IF Truthy(c.phone) THEN c.phone ELSE Null, status |-> c.status,
   fundingSources |-> [i \in 1..Len(sources) |-> MapFundingSource(sources[i])]]

GetEligible(r, path, query) ==
  LET rq == NewReq("eligible", [path |-> path, includeUnverified |-> query])
      nx == DwollaRequest(rq, "customers", "get customers")
  IN
  /\ req' = [req EXCEPT ![r] = nx]
  /\ returned' = ReturnedAfter(rq, nx)
  /\ UNCHANGED <<dwollaConfig, dwollaClient, customersStore, transfersStore,
                 webhooksStore, now, hookRes, dwolla>>

\* The provider answered the list of customers: the loop starts.
EligibleCustomersFetched(r) ==
  LET rq == req[r]
      nx == EligibleLoop([rq EXCEPT !.loc.all = dwolla.customers], 1)
  IN
  /\ rq.h = "eligible" /\ rq.pc = "customers" /\ rq.sub = "call"
  /\ req' = [req EXCEPT ![r] = nx]
  /\ returned' = ReturnedAfter(rq, nx)
  /\ UNCHANGED <<dwollaConfig, dwollaClient, customersStore, transfersStore,
                 webhooksStore, now, hookRes, dwolla>>

\* The provider answered the funding sources of the customer at loc.next.
EligibleSourcesFetched(r, sources) ==
  LET rq == req[r]
      c == rq.loc.all[rq.loc.next]
      allSources == SelectSeq(sources, NotRemoved)
      eligibleSources == IF IncludeUnverified(rq)
                           THEN allSources
                           ELSE SelectSeq(allSources, LAMBDA fs : fs.status = "verified")
      eligibleCustomers == IF Len(eligibleSources) > 0
                             THEN Append(rq.loc.eligible, EligibleRecord(c, eligibleSources))
                             ELSE rq.loc.eligible
      nx == EligibleLoop([rq EXCEPT !.loc.eligible = eligibleCustomers,
                                    !.loc.answers = Append(@, Fetched(sources))],
                         rq.loc.next + 1)
  IN
  /\ rq.h = "eligible" /\ rq.pc = "sources" /\ rq.sub = "call"
  /\ req' = [req EXCEPT ![r] = nx]
  /\ returned' = ReturnedAfter(rq, nx)
  /\ UNCHANGED <<dwollaConfig, dwollaClient, customersStore, transfersStore,
                 webhooksStore, now, hookRes, dwolla>>

(***************************************************************************)
(* GET /api/customers/:id/funding-sources                                  *)
(***************************************************************************)
GetFundingSources(r, path) ==
  LET id == path[3]
      rq == NewReq("listFundingSources", [path |-> path, id |-> id])
      i == FindById(customersStore, id)
      nx == IF i = 0
              THEN Respond(rq, 404, ErrCustomerNotFound)
              ELSE DwollaRequest([rq EXCEPT !.loc.localCustomer = i,
                                            !.loc.location = customersStore[i].url],
                                 "get", "get funding-sources")
  IN
  /\ req' = [req EXCEPT ![r] = nx]
  /\ returned' = ReturnedAfter(rq, nx)
  /\ UNCHANGED <<dwollaConfig, dwollaClient, customersStore, transfersStore,
                 webhooksStore, now, hookRes, dwolla>>

\* The provider answered the list of funding sources.
FundingSourcesListed(r) ==
  LET rq == req[r] IN
  /\ rq.h = "listFundingSources" /\ rq.pc = "get" /\ rq.sub = "call"
  /\ req' = [req EXCEPT ![r] = Respond(rq, 200, Null)]
  /\ UNCHANGED <<dwollaConfig, dwollaClient, customersStore, transfersStore,
                 webhooksStore, now, returned, hookRes, dwolla>>

(***************************************************************************)
(* GET /api/transfers.  After the list of transfers is fetched, one async  *)
(* mapper per transfer runs under Promise.all: it fetches the source       *)
(* funding source, then the destination funding source, each through       *)
(* dwollaRequest and inside its own try/catch.  The mappers are in flight  *)
(* together; the handler answers when the last one has finished.           *)
(***************************************************************************)
\* sourceDetails / destinationDetails: null, the fallback of the catch
\* block, or the mapped funding source.
NoDetails == [id |-> Null, url |-> NoUrl, name |-> Null]

\* Variant: a failed fetch leaves the detail null.
UnknownAsNull(url) == NoDetails

\* { url, name: 'Unknown' }
Unknown(url) == [id |-> Null, url |-> url, name |-> "Unknown"]

Details(url, name) == [id |-> IdOf(url), url |-> url, name |-> name]

\* A mapper that has not run yet; failed collects the stages whose fetch
\* threw.
NewTask == [stage |-> "start", sub |-> "none", authAs |-> NoCredentials,
            sourceDetails |-> NoDetails, destinationDetails |-> NoDetails,
            failed |-> {}]

\* The funding-source link that mapper k fetches at stage.
StageUrl(rq, k, stage) ==
  IF stage = "source" THEN rq.loc.all[k].source ELSE rq.loc.all[k].destination

\* Mapper k stores the detail of the stage it is at.
SetDetails(rq, k, stage, details) ==
  IF stage = "source"
    THEN [rq EXCEPT !.loc.tasks[k].sourceDetails = details]
    ELSE [rq EXCEPT !.loc.tasks[k].destinationDetails = details]

\* The catch block of a stage: the detail degrades to the fallback.
TaskCaught(rq, k, stage) ==
  [SetDetails(rq, k, stage, Unknown(StageUrl(rq, k, stage)))
     EXCEPT !.loc.tasks[k].failed = @ \cup {stage}]

\* Mapper k returns its transfer.
FinishTask(rq, k) ==
  [rq EXCEPT !.loc.tasks[k].stage = "done", !.loc.tasks[k].sub = "none"]

\* dwollaRequest('get', url) of mapper k at stage, with a key and secret
\* stored: the synchronous part of getValidAccessToken runs at once.
TaskCall(rq, k, stage) ==
  LET at == [rq EXCEPT !.gvat = @ + 1, !.loc.tasks[k].stage = stage] IN
  IF IsExpired
    THEN [at EXCEPT !.loc.tasks[k].sub = "auth",
                    !.loc.tasks[k].authAs = dwollaClient,
                    !.calls = Append(@, "auth")]
    ELSE [at EXCEPT !.loc.tasks[k].sub = "call",
                    !.calls = Append(@, "get funding-source")]

\* Mapper k reaches `if (destinationFundingSourceUrl)`.
StartDestination(rq, k) ==
  IF StageUrl(rq, k, "destination") = NoUrl THEN FinishTask(rq, k)
  ELSE IF ~Configured
    THEN FinishTask(TaskCaught([rq EXCEPT !.gvat = @ + 1], k, "destination"), k)
  ELSE TaskCall(rq, k, "destination")

\* Mapper k reaches `if (sourceFundingSourceUrl)`.
StartSource(rq, k) ==
  IF StageUrl(rq, k, "source") = NoUrl THEN StartDestination(rq, k)
  ELSE IF ~Configured
    THEN StartDestination(TaskCaught([rq EXCEPT !.gvat = @ + 1], k, "source"), k)
  ELSE TaskCall(rq, k, "source")

\* Mapper k goes on after the stage it was at.
Continue(rq, k, stage) ==
  IF stage = "source" THEN StartDestination(rq, k) ELSE FinishTask(rq, k)

\* dwollaTransfers.map(async ...): the mappers k, k + 1, ... start in order.
RECURSIVE StartAll(_, _)
StartAll(rq, k) ==
  IF k > Len(rq.loc.all) THEN rq ELSE StartAll(StartSource(rq, k), k + 1)

\* The value mapper k returns.
MapTransfer(rq, k) ==
  LET transfer == rq.loc.all[k] IN
  [id |-> IdOf(transfer.self), url |-> transfer.self, status |-> transfer.status,
   sourceFundingSourceUrl |-> transfer.source,
   destinationFundingSourceUrl |-> transfer.destination,
   sourceDetails |-> rq.loc.tasks[k].sourceDetails,
   destinationDetails |-> rq.loc.tasks[k].destinationDetails]

AllTasksDone(rq) == \A k \in 1..Len(rq.loc.tasks) : rq.loc.tasks[k].stage = "done"

\* Promise.all resolves when the last mapper has returned: the handler
\* answers.
Settle(rq) == IF AllTasksDone(rq) THEN Respond(rq, 200, Null) ELSE rq

\* transfersStore = transfers, once the handler has answered.
TransfersAfter(nx) ==
  IF nx.pc = "done"
    THEN [k \in 1..Len(nx.loc.all) |-> MapTransfer(nx, k)]
    ELSE transfersStore

GetTransfers(r) ==
  LET rq == NewReq("listTransfers", NoBody)
      nx == DwollaRequest(rq, "root", "get root")
  IN
  /\ req' = [req EXCEPT ![r] = nx]
  /\ returned' = ReturnedAfter(rq, nx)
  /\ UNCHANGED <<dwollaConfig, dwollaClient, customersStore, transfersStore,
                 webhooksStore, now, hookRes, dwolla>>

\* The provider answered the GET of the root with the account link.
RootFetched(r) ==
  LET rq == req[r]
      nx == DwollaRequest(rq, "account", "get account transfers")
  IN
  /\ rq.h = "listTransfers" /\ rq.pc = "root" /\ rq.sub = "call"
  /\ req' = [req EXCEPT ![r] = nx]
  /\ returned' = ReturnedAfter(rq, nx)
  /\ UNCHANGED <<dwollaConfig, dwollaClient, customersStore, transfersStore,
                 webhooksStore, now, hookRes, dwolla>>

\* The provider answered the account's transfers: the mappers start.
TransfersListedWith(r, answer) ==
  LET rq == req[r]
      at == [rq EXCEPT !.pc = "details", !.sub = "tasks", !.loc.all = answer,
                       !.loc.tasks = [k \in 1..Len(answer) |-> NewTask]]
      nx == Settle(StartAll(at, 1))
  IN
  /\ rq.h = "listTransfers" /\ rq.pc = "account" /\ rq.sub = "call"
  /\ req' = [req EXCEPT ![r] = nx]
  /\ returned' = ReturnedAfter(rq, nx)
  /\ transfersStore' = TransfersAfter(nx)
  /\ UNCHANGED <<dwollaConfig, dwollaClient, customersStore, webhooksStore,
                 now, hookRes, dwolla>>

\* The provider granted the token request of mapper k: the token is stored
\* and the mapper's GET is issued.
TaskAuthGranted(r, k, token, expiresIn) ==
  LET rq == req[r] IN
  /\ rq.h = "listTransfers" /\ rq.pc = "details"
  /\ k \in 1..Len(rq.loc.tasks) /\ rq.loc.tasks[k].sub = "auth"
  /\ rq.loc.tasks[k].authAs \in ValidCredentials
  /\ dwollaConfig' = [dwollaConfig EXCEPT !.accessToken = token,
                                          !.expiresIn = expiresIn,
                                          !.tokenCreatedAt = now]
  /\ returned' = token
  /\ req' = [req EXCEPT ![r] =
               [rq EXCEPT !.loc.tasks[k].sub = "call",
                          !.calls = Append(@, "get funding-source")]]
  /\ UNCHANGED <<dwollaClient, customersStore, transfersStore, webhooksStore,
                 now, hookRes, dwolla>>

\* The provider refused the token request of mapper k.
TaskAuthRefused(r, k) ==
  LET rq == req[r]
      stage == rq.loc.tasks[k].stage
      nx == Settle(Continue(TaskCaught(rq, k, stage), k, stage))
  IN
  /\ rq.h = "listTransfers" /\ rq.pc = "details"
  /\ k \in 1..Len(rq.loc.tasks) /\ rq.loc.tasks[k].sub = "auth"
  /\ req' = [req EXCEPT ![r] = nx]
  /\ returned' = ReturnedAfter(rq, nx)
  /\ transfersStore' = TransfersAfter(nx)
  /\ UNCHANGED <<dwollaConfig, dwollaClient, customersStore, webhooksStore,
                 now, hookRes, dwolla>>

\* The provider answered the funding-source GET of mapper k.
TaskFetched(r, k, name) ==
  LET rq == req[r]
      stage == rq.loc.tasks[k].stage
      nx == Settle(Continue(SetDetails(rq, k, stage,
                                       Details(StageUrl(rq, k, stage), name)),
                            k, stage))
  IN
  /\ rq.h = "listTransfers" /\ rq.pc = "details"
  /\ k \in 1..Len(rq.loc.tasks) /\ rq.loc.tasks[k].sub = "call"
  /\ req' = [req EXCEPT ![r] = nx]
  /\ returned' = ReturnedAfter(rq, nx)
  /\ transfersStore' = TransfersAfter(nx)
  /\ UNCHANGED <<dwollaConfig, dwollaClient, customersStore, webhooksStore,
                 now, hookRes, dwolla>>

\* The funding-source GET of mapper k failed.
TaskFailed(r, k) ==
  LET rq == req[r]
      stage == rq.loc.tasks[k].stage
      nx == Settle(Continue(TaskCaught(rq, k, stage), k, stage))
  IN
  /\ rq.h = "listTransfers" /\ rq.pc = "details"
  /\ k \in 1..Len(rq.loc.tasks) /\ rq.loc.tasks[k].sub = "call"
  /\ req' = [req EXCEPT ![r] = nx]
  /\ returned' = ReturnedAfter(rq, nx)
  /\ transfersStore' = TransfersAfter(nx)
  /\ UNCHANGED <<dwollaConfig, dwollaClient, customersStore, webhooksStore,
                 now, hookRes, dwolla>>

\* A transfer is created at the provider outside this server (an earlier
\* session, the provider's dashboard).
TransferAddedElsewhere ==
  /\ dwolla.transfers < MaxTransfers
  /\ dwolla' = [dwolla EXCEPT !.transfers = @ + 1]
  /\ UNCHANGED <<dwollaConfig, dwollaClient, customersStore, transfersStore,
                 webhooksStore, now, req, returned, hookRes>>

(***************************************************************************)
(* A GET request arrives and is dispatched by the router.  Paths of        *)
(* handlers that are not modelled are not requested.                       *)
(***************************************************************************)
ErrNoRoute == "Cannot GET"

Get(r, path, query) ==
  LET h == Route(path) IN
  IF h = "listCustomers" THEN GetCustomers(r)
  ELSE IF h = "getCustomer" THEN GetCustomer(r, path)
  ELSE IF h = "listFundingSources" THEN GetFundingSources(r, path)
  ELSE IF h = "listTransfers" THEN GetTransfers(r)
  ELSE IF h = "eligible" THEN GetEligible(r, path, query)
  ELSE /\ h = "notFound"
       /\ req' = [req EXCEPT ![r] =
                    Respond(NewReq("notFound", [path |-> path, id |-> Null]),
                            404, ErrNoRoute)]
       /\ UNCHANGED <<dwollaConfig, dwollaClient, customersStore, transfersStore,
                      webhooksStore, now, returned, hookRes, dwolla>>

(***************************************************************************)
(* Routing specification: GET requests by path, one at a time.             *)
(***************************************************************************)
EligiblePath == <<"api", "customers", "eligible">>
GetPaths ==
  {<<"api", "customers">>, <<"api", "customers", "id1">>,
   <<"api", "customers", "id2">>, EligiblePath, <<"api", "customer">>}
Queries == {Null, "true", "false"}

NextRouting ==
  \/ NoneInFlight /\ PostConfig(1, "key1", "secret1")
  \/ \E e \in LongLifetime : AuthGranted(1, "tokenA", e)
  \/ NoneInFlight /\ \E body \in RaceBodies : PostCustomers(1, body)
  \/ \E st \in Statuses : CustomerCreated(1, st)
  \/ CustomerFetched(1)
  \/ NoneInFlight /\ \E path \in GetPaths, q \in Queries : Get(1, path, q)
  \/ CustomersListed(1)
  \/ CustomerRefreshed(1)
  \/ \E err \in ProviderErrors : CallFailed(1, err)

SpecRouting == Init /\ [][NextRouting]_vars

\* C16: a GET of /api/customers/eligible is handled by the eligible-customers
\* handler and is never answered 404 by the handler of /api/customers/:id.
EligibleRouteServed ==
  \A r \in Reqs :
     (req[r].h \in {"getCustomer", "eligible"} /\ req[r].body.path = EligiblePath) =>
        /\ req[r].h = "eligible"
        /\ req[r].status # 404

(***************************************************************************)
(* Eligibility specification: the eligible-customers handler is run on     *)
(* provider customers created through POST /api/customers.                 *)
(***************************************************************************)
FundingSource(n, status, removed) ==
  [self |-> <<"funding-sources", Ids[n]>>, name |-> "Checking",
   status |-> status, removed |-> removed]

\* Answers of the provider to GET {customer}/funding-sources.
SourceLists ==
  {<<>>,
   <<FundingSource(1, "verified", FALSE)>>,
   <<FundingSource(2, "unverified", FALSE)>>,
   <<FundingSource(3, "verified", TRUE)>>,
   <<FundingSource(2, "unverified", FALSE), FundingSource(1, "verified", FALSE)>>,
   <<FundingSource(3, "verified", TRUE), FundingSource(1, "verified", FALSE),
     FundingSource(2, "unverified", FALSE)>>}

NextEligible ==
  \/ NoneInFlight /\ PostConfig(1, "key1", "secret1")
  \/ \E e \in LongLifetime : AuthGranted(1, "tokenA", e)
  \/ NoneInFlight /\ \E body \in RaceBodies : PostCustomers(1, body)
  \/ \E st \in Statuses : CustomerCreated(1, st)
  \/ CustomerFetched(1)
  \/ NoneInFlight /\ \E q \in Queries : GetEligible(1, EligiblePath, q)
  \/ EligibleCustomersFetched(1)
  \/ \E sources \in SourceLists : EligibleSourcesFetched(1, sources)
  \/ \E err \in ProviderErrors : CallFailed(1, err)

SpecEligible == Init /\ [][NextEligible]_vars

\* The funding sources of an answer that are not removed and, unless
\* includeUnverified=true was asked, verified.
Surviving(rq, sources) ==
  SelectSeq(sources,
            LAMBDA fs : /\ fs.removed = FALSE
                        /\ rq.body.includeUnverified = "true" \/ fs.status = "verified")

\* C17: the list answered by the eligible-customers handler holds, in the
\* provider's order, exactly the verified customers whose funding-source
\* fetch succeeded with at least one surviving funding source, each with
\* exactly its surviving funding sources; a failed funding-source fetch
\* leaves the customer out and the request is still answered 200.
EligibleListExact ==
  \A r \in Reqs :
     (req[r].h = "eligible" /\ req[r].pc = "done" /\ req[r].loc.next >= 1) =>
        LET rq == req[r]
            verified == SelectSeq(rq.loc.all, LAMBDA c : c.status = "verified")
            listed == {k \in 1..Len(verified) :
                         /\ rq.loc.answers[k].ok
                         /\ Surviving(rq, rq.loc.answers[k].sources) # <<>>}
            list == rq.loc.eligible
        IN
        /\ rq.status = 200
        /\ Len(rq.loc.answers) = Len(verified)
        /\ Len(list) = Cardinality(listed)
        /\ \A j \in 1..Len(list) :
              \E k \in listed :
                 /\ list[j].url = verified[k].self
                 /\ list[j].status = "verified"
                 /\ Len(list[j].fundingSources)
                      = Len(Surviving(rq, rq.loc.answers[k].sources))
                 /\ \A n \in 1..Len(list[j].fundingSources) :
                       list[j].fundingSources[n].url
                         = Surviving(rq, rq.loc.answers[k].sources)[n].self
        /\ \A j, k \in 1..Len(list) : j < k => list[j].url # list[k].url

\* Of two verified customers one was left out because its funding sources
\* could not be fetched; the other is listed with fewer funding sources than
\* the provider returned.
EligibleListExactWitness ==
  /\ req[1].h = "eligible" /\ req[1].status = 200
  /\ req[1].body.includeUnverified # "true"
  /\ Len(req[1].loc.answers) = 2
  /\ ~req[1].loc.answers[1].ok
  /\ Len(req[1].loc.eligible) = 1
  /\ Len(req[1].loc.eligible[1].fundingSources) = 1
  /\ Len(req[1].loc.answers[2].sources) = 3

(***************************************************************************)
(* POST /api/customers/:id/verify                                          *)
(***************************************************************************)
PostVerify(r, id) ==
  LET rq == NewReq("verify", [id |-> id])
      i == FindById(customersStore, id)
      nx == IF i = 0
              THEN Respond(rq, 404, ErrCustomerNotFound)
              ELSE DwollaRequest([rq EXCEPT !.loc.localCustomer = i,
                                            !.loc.location = customersStore[i].url],
                                 "post", "post customer")
  IN
  /\ req' = [req EXCEPT ![r] = nx]
  /\ returned' = ReturnedAfter(rq, nx)
  /\ UNCHANGED <<dwollaConfig, dwollaClient, customersStore, transfersStore,
                 webhooksStore, now, hookRes, dwolla>>

\* The provider accepted the verification data; the customer's status at
\* the provider becomes status.
VerifyPosted(r, status) ==
  LET rq == req[r]
      nx == DwollaRequest(rq, "get", "get customer")
  IN
  /\ rq.h = "verify" /\ rq.pc = "post" /\ rq.sub = "call"
  /\ dwolla' = [dwolla EXCEPT !.customers =
                  [i \in 1..Len(@) |->
                     IF @[i].self = rq.loc.location
                       THEN [@[i] EXCEPT !.status = status]
                       ELSE @[i]]]
  /\ req' = [req EXCEPT ![r] = nx]
  /\ returned' = ReturnedAfter(rq, nx)
  /\ UNCHANGED <<dwollaConfig, dwollaClient, customersStore, transfersStore,
                 webhooksStore, now, hookRes>>

\* The provider answered the re-fetch of the customer.
VerifyFetched(r) ==
  LET rq == req[r]
      status == ProviderStatus(rq.loc.location)
  IN
  /\ rq.h = "verify" /\ rq.pc = "get" /\ rq.sub = "call"
  /\ customersStore' = StatusAssigned(rq, status)
  /\ req' = [req EXCEPT ![r] = Respond([rq EXCEPT !.loc.newStatus = status], 200, Null)]
  /\ UNCHANGED <<dwollaConfig, dwollaClient, transfersStore, webhooksStore,
                 now, returned, hookRes, dwolla>>

(***************************************************************************)
(* Verification specification: a verify request (slot 1) and a             *)
(* list-customers request (slot 2) in flight at once, on customers created *)
(* beforehand.                                                             *)
(***************************************************************************)
VerifyOutcomes == {"verified", "retry"}

NextVerify ==
  \/ NoneInFlight /\ PostConfig(1, "key1", "secret1")
  \/ \E e \in LongLifetime : AuthGranted(1, "tokenA", e)
  \/ NoneInFlight /\ \E body \in RaceBodies : PostCustomers(1, body)
  \/ CustomerCreated(1, "unverified")
  \/ CustomerFetched(1)
  \/ \E id \in {"id1", "id2"} : req[1].sub = "none" /\ PostVerify(1, id)
  \/ \E st \in VerifyOutcomes : VerifyPosted(1, st)
  \/ VerifyFetched(1)
  \/ req[2].sub = "none" /\ GetCustomers(2)
  \/ CustomersListed(2)
  \/ \E r \in Reqs, err \in ProviderErrors : CallFailed(r, err)

SpecVerify == Init /\ [][NextVerify]_vars

\* C18: in the state in which a verify request is answered with success,
\* the registry record with the request's id has the status that the
\* re-fetch returned.
VerifyUpdatesRegistry ==
  [][\A r \in Reqs :
       (req[r].h = "verify" /\ req[r].sub = "call" /\ req[r].pc = "get"
          /\ req'[r].status = 200) =>
          \A i \in 1..Len(customersStore') :
             customersStore'[i].id = req'[r].body.id =>
                customersStore'[i].status = req'[r].loc.newStatus]_vars

\* getValidAccessToken returns a token to slot r in this step: from the
\* cache, or because the token request of slot r was granted.
ReturnsToken(r) ==
  /\ req'[r] # req[r]
  /\ req[r].sub = "auth" \/ Invokes(r)
  /\ req'[r].sub = "call" \/ (req'[r].h = "config" /\ req'[r].status = 200)

\* The held token is usable: tokenCreatedAt + expiresIn - 60 s > now.
Usable(config, time) ==
  config.tokenCreatedAt + (config.expiresIn - 60) * 1000 > time

\* C19: every token that getValidAccessToken returns is usable at the
\* moment of return, whatever lifetime the provider reported.
ReturnedTokenUsable ==
  [][\A r \in Reqs : ReturnsToken(r) => Usable(dwollaConfig', now')]_vars

(***************************************************************************)
(* Mapping specification: the provider may answer a create with a Location *)
(* that ends in '/', whose last segment is empty.                          *)
(***************************************************************************)
\* The url followed by '/'.
WithSlash(url) == Append(url, "")

Locations ==
  {CustomerUrl(Len(dwolla.customers) + 1),
   WithSlash(CustomerUrl(Len(dwolla.customers) + 1))}

NextMapping ==
  \/ NoneInFlight /\ PostConfig(1, "key1", "secret1")
  \/ \E e \in LongLifetime : AuthGranted(1, "tokenA", e)
  \/ NoneInFlight /\ \E body \in RaceBodies : PostCustomers(1, body)
  \/ \E url \in Locations : CustomerCreatedAt(1, "unverified", url)
  \/ CustomerFetched(1)
  \/ NoneInFlight /\ GetCustomers(1)
  \/ CustomersListed(1)
  \/ \E err \in ProviderErrors : CallFailed(1, err)

SpecMapping == Init /\ [][NextMapping]_vars

\* C20: no record of the customer or transfer registry has an empty id.
NoEmptyId ==
  /\ \A i \in 1..Len(customersStore) : customersStore[i].id # ""
  /\ \A i \in 1..Len(transfersStore) : transfersStore[i].id # ""

\* Texts of the errors that carry no structured provider error list.
ServerFaultTexts == {TokenError.message, NetworkError.message}

\* C21: a create-customer or create-transfer request whose provider call
\* failed without a structured provider error list (network failure, token
\* request refused) is answered 500.
ServerFaultAnswered500 ==
  \A r \in Reqs :
     /\ (req[r].h = "createCustomer" /\ req[r].pc = "done"
           /\ req[r].error \in ServerFaultTexts) => req[r].status = 500
     /\ (req[r].h = "createTransfer" /\ req[r].pc = "done"
           /\ req[r].error = ErrCreateTransfer) => req[r].status = 500

(***************************************************************************)
(* Validation specification: create requests with and without their        *)
(* required fields, one at a time.                                         *)
(***************************************************************************)
ValidationCustomerBodies ==
  [firstName : {"Ann"}, lastName : {"Lee"},
   email : {<<"a", "b">>, <<"b", "b">>}, phone : {Null, "555"}]
  \cup [firstName : {Null, "Ann"}, lastName : {Null, "Lee"},
        email : {<<>>, <<"a", "b">>}, phone : {Null}]

ValidationTransferBodies ==
  [source : {NoUrl, FsA}, destination : {NoUrl, FsB},
   amount : {Undefined, Amount(0), Amount(10)}, allowUnverified : {FALSE}]

NextValidation ==
  \/ NoneInFlight /\ PostConfig(1, "key1", "secret1")
  \/ \E e \in LongLifetime : AuthGranted(1, "tokenA", e)
  \/ NoneInFlight /\ \E body \in ValidationCustomerBodies : PostCustomers(1, body)
  \/ CustomerCreated(1, "unverified")
  \/ CustomerFetched(1)
  \/ NoneInFlight /\ \E body \in ValidationTransferBodies : PostTransfers(1, body)
  \/ \E st \in Statuses : SourceFetched(1, st)
  \/ DestinationFetched(1, "verified", OwnerUrl)
  \/ TransferCreated(1)
  \/ TransferFetched(1, "pending")
  \/ \E err \in ProviderErrors : CallFailed(1, err)

SpecValidation == Init /\ [][NextValidation]_vars

\* Some record of the customer registry has this phone.
PhoneRegistered(phone) ==
  \E i \in 1..Len(customersStore) : customersStore[i].phone = phone

\* The request that slot r starts in this step fails local validation.
FailsValidation(r) ==
  \/ /\ req'[r].h = "createCustomer"
     /\ \/ req'[r].body.firstName = Null
        \/ req'[r].body.lastName = Null
        \/ req'[r].body.email = <<>>
        \/ req'[r].body.phone # Null /\ PhoneRegistered(req'[r].body.phone)
  \/ /\ req'[r].h = "createTransfer"
     /\ \/ req'[r].body.source = NoUrl
        \/ req'[r].body.destination = NoUrl
        \/ ~req'[r].body.amount.defined

\* C22: a create-customer request without firstName, lastName or email, or
\* with the phone of a registered customer, and a create-transfer request
\* without source, destination or amount, is answered 400 in the step that
\* receives it, without any provider call and with the registries unchanged.
InvalidRejectedLocally ==
  [][\A r \in Reqs :
       (Starts(r) /\ FailsValidation(r)) =>
          /\ req'[r].pc = "done" /\ req'[r].status = 400
          /\ req'[r].calls = <<>> /\ req'[r].gvat = 0
          /\ Registries' = Registries
          /\ dwolla' = dwolla
          /\ dwollaConfig' = dwollaConfig]_vars

\* A create-customer request with a new email was refused for its phone, on
\* a server that also holds a transfer.
InvalidRejectedLocallyWitness ==
  /\ req[1].h = "createCustomer" /\ req[1].error = ErrPhoneExists
  /\ req[1].calls = <<>>
  /\ ~EmailRegistered(req[1].body.email)
  /\ Len(transfersStore) >= 1

(***************************************************************************)
(* POST /api/customers/:id/funding-sources                                 *)
(***************************************************************************)
PostFundingSources(r, id, name) ==
  LET rq == NewReq("addFundingSource", [id |-> id, name |-> name])
      i == FindById(customersStore, id)
      nx == IF i = 0
              THEN Respond(rq, 404, ErrCustomerNotFound)
            ELSE IF ~Truthy(name)
              THEN Respond(rq, 400, ErrNameRequired)
            ELSE DwollaRequest([rq EXCEPT !.loc.localCustomer = i],
                               "post", "post funding-sources")
  IN
  /\ req' = [req EXCEPT ![r] = nx]
  /\ returned' = ReturnedAfter(rq, nx)
  /\ UNCHANGED <<dwollaConfig, dwollaClient, customersStore, transfersStore,
                 webhooksStore, now, hookRes, dwolla>>

\* The provider created the funding source and answered with its Location.
FundingSourceCreated(r) ==
  LET rq == req[r]
      nx == DwollaRequest([rq EXCEPT !.loc.location = FsA], "get", "get funding-source")
  IN
  /\ rq.h = "addFundingSource" /\ rq.pc = "post" /\ rq.sub = "call"
  /\ req' = [req EXCEPT ![r] = nx]
  /\ returned' = ReturnedAfter(rq, nx)
  /\ UNCHANGED <<dwollaConfig, dwollaClient, customersStore, transfersStore,
                 webhooksStore, now, hookRes, dwolla>>

\* The provider answered the GET of the new funding source.
FundingSourceFetched(r) ==
  LET rq == req[r] IN
  /\ rq.h = "addFundingSource" /\ rq.pc = "get" /\ rq.sub = "call"
  /\ req' = [req EXCEPT ![r] = Respond(rq, 201, Null)]
  /\ UNCHANGED <<dwollaConfig, dwollaClient, customersStore, transfersStore,
                 webhooksStore, now, returned, hookRes, dwolla>>

(***************************************************************************)
(* POST /api/customers/:id/iav-token                                       *)
(***************************************************************************)
PostIavToken(r, id) ==
  LET rq == NewReq("iavToken", [id |-> id])
      i == FindById(customersStore, id)
      nx == IF i = 0
              THEN Respond(rq, 404, ErrCustomerNotFound)
              ELSE DwollaRequest([rq EXCEPT !.loc.localCustomer = i],
                                 "post", "post iav-token")
  IN
  /\ req' = [req EXCEPT ![r] = nx]
  /\ returned' = ReturnedAfter(rq, nx)
  /\ UNCHANGED <<dwollaConfig, dwollaClient, customersStore, transfersStore,
                 webhooksStore, now, hookRes, dwolla>>

\* The provider answered with an IAV token.
IavTokenCreated(r) ==
  LET rq == req[r] IN
  /\ rq.h = "iavToken" /\ rq.pc = "post" /\ rq.sub = "call"
  /\ req' = [req EXCEPT ![r] = Respond(rq, 200, Null)]
  /\ UNCHANGED <<dwollaConfig, dwollaClient, customersStore, transfersStore,
                 webhooksStore, now, returned, hookRes, dwolla>>

(***************************************************************************)
(* Customer-scoped specification: the five endpoints under                  *)
(* /api/customers/:id, one request at a time.                              *)
(***************************************************************************)
ScopedIds == {"id1", "id2"}

NextScoped ==
  \/ NoneInFlight /\ PostConfig(1, "key1", "secret1")
  \/ \E e \in LongLifetime : AuthGranted(1, "tokenA", e)
  \/ NoneInFlight /\ PostCustomers(1, EventCustomer)
  \/ CustomerCreated(1, "unverified")
  \/ CustomerFetched(1)
  \/ NoneInFlight /\ \E id \in ScopedIds : Get(1, <<"api", "customers", id>>, Null)
  \/ CustomerRefreshed(1)
  \/ NoneInFlight /\ \E id \in ScopedIds : PostVerify(1, id)
  \/ \E st \in VerifyOutcomes : VerifyPosted(1, st)
  \/ VerifyFetched(1)
  \/ NoneInFlight /\ \E id \in ScopedIds, name \in {Null, "Checking"} :
        PostFundingSources(1, id, name)
  \/ FundingSourceCreated(1)
  \/ FundingSourceFetched(1)
  \/ NoneInFlight /\ \E id \in ScopedIds :
        Get(1, <<"api", "customers", id, "funding-sources">>, Null)
  \/ FundingSourcesListed(1)
  \/ NoneInFlight /\ \E id \in ScopedIds : PostIavToken(1, id)
  \/ IavTokenCreated(1)
  \/ \E err \in ProviderErrors : CallFailed(1, err)

SpecScoped == Init /\ [][NextScoped]_vars

CustomerScoped ==
  {"getCustomer", "verify", "addFundingSource", "listFundingSources", "iavToken"}

\* C23: a request to a customer-scoped endpoint whose id is the id of no
\* record of the customer registry is answered 404 "Customer not found" in
\* the step that receives it, without any provider call and with nothing
\* changed, whether or not the provider knows a customer with that id.
UnknownCustomerIs404 ==
  [][\A r \in Reqs :
       (Starts(r) /\ req'[r].h \in CustomerScoped
          /\ \A i \in 1..Len(customersStore) :
                customersStore[i].id # req'[r].body.id) =>
          /\ req'[r].pc = "done" /\ req'[r].status = 404
          /\ req'[r].error = ErrCustomerNotFound
          /\ req'[r].calls = <<>> /\ req'[r].gvat = 0
          /\ Registries' = Registries
          /\ dwolla' = dwolla
          /\ dwollaConfig' = dwollaConfig]_vars

\* The provider knows customer id1, the registry does not, and a funding
\* source for id1 was refused with 404.
UnknownCustomerIs404Witness ==
  /\ \E i \in 1..Len(dwolla.customers) : IdOf(dwolla.customers[i].self) = "id1"
  /\ customersStore = <<>>
  /\ Configured
  /\ req[1].h = "addFundingSource" /\ req[1].body.id = "id1"
  /\ req[1].body.name # Null
  /\ req[1].status = 404

\* The provider calls of a request without its token requests.
ProviderCalls(rq) == SelectSeq(rq.calls, LAMBDA c : c # "auth")

\* C24: a create-customer request answered 201 has issued the customer POST
\* and then the GET of the returned Location, and the step that answers it
\* appends exactly one record, for that Location, to the customer registry;
\* every other step of a create-customer request leaves the registry
\* unchanged, and a request whose provider call fails is answered with an
\* error.
CreateCustomerSequence ==
  /\ [](\A r \in Reqs :
          (req[r].h = "createCustomer" /\ req[r].status = 201) =>
             ProviderCalls(req[r]) = <<"post customers", "get customer">>)
  /\ [][\A r \in Reqs :
          (req'[r].h = "createCustomer" /\ req'[r] # req[r]) =>
             IF req'[r].status = 201
               THEN /\ Len(customersStore') = Len(customersStore) + 1
                    /\ SubSeq(customersStore', 1, Len(customersStore)) = customersStore
                    /\ customersStore'[Len(customersStore')].url = req'[r].loc.location
                    /\ customersStore'[Len(customersStore')].email = req'[r].body.email
               ELSE /\ customersStore' = customersStore
                    /\ (req[r].sub # "none" /\ req'[r].pc = "done") =>
                          (req'[r].status = 400 /\ req'[r].error # Null)]_vars

\* A second customer was created with the two provider calls, and a record
\* for its Location is the last of the registry.
CreateCustomerSequenceWitness ==
  /\ req[1].h = "createCustomer" /\ req[1].status = 201
  /\ req[1].calls = <<"post customers", "get customer">>
  /\ Len(customersStore) = 2
  /\ customersStore[2].url = req[1].loc.location

(***************************************************************************)
(* Listing specification: the provider answers a list request with the     *)
(* first customers it holds (all of them, or fewer), or the call fails.    *)
(***************************************************************************)
ListingBodies ==
  [firstName : {"Ann"}, lastName : {"Lee"},
   email : {<<"a", "b">>, <<"b", "b">>}, phone : {Null, "555"}]

ListAnswers == {SubSeq(dwolla.customers, 1, n) : n \in 0..Len(dwolla.customers)}

NextListing ==
  \/ NoneInFlight /\ PostConfig(1, "key1", "secret1")
  \/ \E e \in LongLifetime : AuthGranted(1, "tokenA", e)
  \/ AuthRefused(1)
  \/ NoneInFlight /\ \E body \in ListingBodies : PostCustomers(1, body)
  \/ \E st \in Statuses : CustomerCreated(1, st)
  \/ CustomerFetched(1)
  \/ NoneInFlight /\ GetCustomers(1)
  \/ \E answer \in ListAnswers : CustomersListedWith(1, answer)
  \/ \E err \in ProviderErrors : CallFailed(1, err)

SpecListing == Init /\ [][NextListing]_vars

\* Slot r answers a list-customers request in this step.
ListAnswered(r) ==
  /\ req'[r].h = "listCustomers" /\ req'[r].pc = "done"
  /\ req'[r] # req[r]

\* The registry is the provider's answer, record by record.
RegistryMirrors(store, answer) ==
  /\ Len(store) = Len(answer)
  /\ \A i \in 1..Len(answer) :
        /\ store[i].url = answer[i].self
        /\ store[i].id = answer[i].self[Len(answer[i].self)]
        /\ store[i].email = answer[i].email
        /\ store[i].status = answer[i].status
        /\ store[i].phone = answer[i].phone

\* C25: when a list-customers request is answered 200 the customer registry
\* is the mapped answer of the provider, in its order and with nothing else;
\* otherwise the answer is 500 and the registry is unchanged.
ListReplacesRegistry ==
  [][\A r \in Reqs :
       ListAnswered(r) =>
          IF req'[r].status = 200
            THEN RegistryMirrors(customersStore', req'[r].loc.all)
            ELSE /\ req'[r].status = 500
                 /\ req'[r].error = ErrListCustomers
                 /\ customersStore' = customersStore]_vars

\* The provider holds two customers and answered with the first one only:
\* the registry is that one record.
ListReplacesRegistryWitness ==
  /\ req[1].h = "listCustomers" /\ req[1].status = 200
  /\ Len(dwolla.customers) = 2
  /\ Len(req[1].loc.all) = 1
  /\ Len(customersStore) = 1
  /\ customersStore[1].phone = "555"

(***************************************************************************)
(* Specification: listing the transfers, the per-transfer detail fetches   *)
(* in flight together, the token fresh throughout.                         *)
(***************************************************************************)
FundingNames == {"Checking"}

\* The provider's answers to the account's transfers: one entry per
\* transfer, the source link present or absent.
TransferAnswers ==
  {[k \in 1..dwolla.transfers |->
      [self |-> TransferUrl(k), status |-> "pending", source |-> src[k],
       destination |-> FsB]] :
     src \in [1..dwolla.transfers -> {NoUrl, FsA}]}

NextFanOut ==
  \/ NoneInFlight /\ PostConfig(1, "key1", "secret1")
  \/ \E e \in LongLifetime : AuthGranted(1, "tokenA", e)
  \/ AuthRefused(1)
  \/ TransferAddedElsewhere
  \/ NoneInFlight /\ GetTransfers(1)
  \/ RootFetched(1)
  \/ \E answer \in TransferAnswers : TransfersListedWith(1, answer)
  \/ \E err \in ProviderErrors : CallFailed(1, err)
  \/ \E k \in 1..MaxTransfers, name \in FundingNames : TaskFetched(1, k, name)
  \/ \E k \in 1..MaxTransfers : TaskFailed(1, k)

SpecFanOut == Init /\ [][NextFanOut]_vars

\* The detail a finished mapper holds for one stage is decided by that
\* stage alone: null without a link, the fallback after a failed fetch, the
\* mapped funding source otherwise.
DetailDecidedLocally(rq, k, stage, details) ==
  LET url == IF stage = "source" THEN rq.loc.all[k].source
                                 ELSE rq.loc.all[k].destination
  IN
  IF url = NoUrl THEN details = [id |-> Null, url |-> NoUrl, name |-> Null]
  ELSE IF stage \in rq.loc.tasks[k].failed
    THEN details = [id |-> Null, url |-> url, name |-> "Unknown"]
  ELSE /\ details.url = url /\ details.id = url[Len(url)]
       /\ details.name \in FundingNames

\* Slot r answers a list-transfers request in this step.
TransfersAnswered(r) ==
  /\ req'[r].h = "listTransfers" /\ req'[r].pc = "done"
  /\ req[r].pc # "done"

\* C26: once the list of transfers is fetched, the request is answered 200
\* whatever the detail fetches do; the registry then holds one entry per
\* provider transfer, in the provider's order, and each detail is the
\* fallback {url, name: 'Unknown'} exactly when its own fetch failed.
DetailFailureIsLocal ==
  /\ [](\A r \in Reqs :
          req[r].h = "listTransfers" =>
             /\ (req[r].status = 500 => req[r].loc.tasks = <<>>)
             /\ \A k \in 1..Len(req[r].loc.tasks) :
                   req[r].loc.tasks[k].stage = "done" =>
                      /\ DetailDecidedLocally(req[r], k, "source",
                            req[r].loc.tasks[k].sourceDetails)
                      /\ DetailDecidedLocally(req[r], k, "destination",
                            req[r].loc.tasks[k].destinationDetails))
  /\ [][\A r \in Reqs :
          /\ (req[r].pc = "details" /\ req'[r].pc = "done")
                => req'[r].status = 200
          /\ (TransfersAnswered(r) /\ req'[r].status = 200) =>
                /\ Len(transfersStore') = Len(req'[r].loc.all)
                /\ \A k \in 1..Len(req'[r].loc.all) :
                      LET transfer == req'[r].loc.all[k]
                          record == transfersStore'[k]
                      IN
                      /\ record.url = transfer.self
                      /\ record.id = transfer.self[Len(transfer.self)]
                      /\ record.status = transfer.status
                      /\ record.sourceFundingSourceUrl = transfer.source
                      /\ record.destinationFundingSourceUrl = transfer.destination
                      /\ record.sourceDetails = req'[r].loc.tasks[k].sourceDetails
                      /\ record.destinationDetails =
                           req'[r].loc.tasks[k].destinationDetails]_vars

\* A list of two transfers is answered 200 with the first transfer's source
\* degraded and the second transfer's details complete.
DetailFailureIsLocalWitness ==
  /\ req[1].h = "listTransfers" /\ req[1].pc = "done" /\ req[1].status = 200
  /\ Len(req[1].loc.tasks) = 2 /\ Len(transfersStore) = 2
  /\ req[1].loc.tasks[1].failed = {"source"}
  /\ req[1].loc.tasks[2].failed = {}
  /\ transfersStore[1].sourceDetails.name = "Unknown"
  /\ transfersStore[1].destinationDetails.name = "Checking"
  /\ transfersStore[2].sourceDetails.name = "Checking"
  /\ transfersStore[2].destinationDetails.name = "Checking"

(***************************************************************************)
(* Specification: customer webhooks delivered to a registry that holds a   *)
(* customer and a transfer.                                                *)
(***************************************************************************)
CustomerTopics ==
  {Topic(<<"customer", "verified">>), Topic(<<"customer", "suspended">>),
   Topic(<<"customer", "verification", "document", "needed">>),
   Topic(<<"customer", "reverification", "needed">>),
   Topic(<<"customer", "created">>),
   Topic(<<"customer", "transfer", "completed">>)}
CustomerLinks ==
  {Links(CustomerUrl(1), TransferUrl(1)),
   Links(CustomerUrl(MaxCustomers + 1), TransferUrl(1)),
   Links(NoUrl, TransferUrl(1))}
CustomerEvents == [hasId : {TRUE}, topic : CustomerTopics, links : CustomerLinks]

NextCustomerEvents ==
  \/ NoneInFlight /\ PostConfig(1, "key1", "secret1")
  \/ \E e \in LongLifetime : AuthGranted(1, "tokenA", e)
  \/ NoneInFlight /\ PostCustomers(1, EventCustomer)
  \/ CustomerCreated(1, "unverified")
  \/ CustomerFetched(1)
  \/ NoneInFlight /\ PostTransfers(1, EventTransfer)
  \/ SourceFetched(1, "verified")
  \/ DestinationFetched(1, "verified", OwnerUrl)
  \/ TransferCreated(1)
  \/ TransferFetched(1, "pending")
  \/ NoneInFlight /\ dwolla.events < MaxEvents
        /\ \E ev \in CustomerEvents : PostWebhooks(ev)

SpecCustomerEvents == Init /\ [][NextCustomerEvents]_vars

\* The status each listed customer topic stands for.
StatusTable ==
  (<<"customer", "verified">> :> "verified")
  @@ (<<"customer", "suspended">> :> "suspended")
  @@ (<<"customer", "verification", "document", "needed">> :> "document")
  @@ (<<"customer", "reverification", "needed">> :> "retry")

\* A webhook whose topic starts with 'customer_' is delivered in this step;
\* it is the newest record of the webhook log.
CustomerEventDelivered ==
  /\ dwolla'.events = dwolla.events + 1
  /\ webhooksStore' # <<>>
  /\ webhooksStore'[1].topic.type = "string"
  /\ Len(webhooksStore'[1].topic.words) >= 2
  /\ webhooksStore'[1].topic.words[1] = "customer"

\* C27: a delivered customer_ webhook whose customer link is the url of a
\* customer record sets that record's status by the table of four topics;
\* with any other customer_ topic, or a link matching no record, the
\* customer registry is unchanged; the transfer registry is unchanged in
\* every case.
CustomerWebhookTable ==
  [][CustomerEventDelivered =>
       LET event == webhooksStore'[1]
           matches == {i \in 1..Len(customersStore) :
                         customersStore[i].url = event.links.customer}
       IN
       /\ transfersStore' = transfersStore
       /\ IF matches # {} /\ event.topic.words \in DOMAIN StatusTable
            THEN \E i \in matches :
                    /\ \A j \in matches : i <= j
                    /\ customersStore' =
                         [customersStore EXCEPT
                            ![i].status = StatusTable[event.topic.words]]
            ELSE customersStore' = customersStore]_vars

\* The document-needed webhook reached the record of the created customer
\* while a transfer was in the registry.
CustomerWebhookTableWitness ==
  /\ Len(customersStore) = 1 /\ Len(transfersStore) = 1
  /\ customersStore[1].status = "document"
  /\ webhooksStore # <<>>
  /\ webhooksStore[1].topic.words = <<"customer", "verification", "document", "needed">>
  /\ webhooksStore[1].links.customer = customersStore[1].url

(***************************************************************************)
(* Specification: the customer list answered with arbitrary provider       *)
(* customers of a bounded set.                                             *)
(***************************************************************************)
MaxListed == 2   \* customers in one answer of the provider

ProviderCustomers ==
  {[self |-> CustomerUrl(1), email |-> <<"a", "b">>, phone |-> Null,
    status |-> "unverified"],
   [self |-> CustomerUrl(2), email |-> <<"A", "b">>, phone |-> "555",
    status |-> "verified"],
   [self |-> WithSlash(CustomerUrl(1)), email |-> <<"a", "b">>, phone |-> Null,
    status |-> "suspended"],
   [self |-> CustomerUrl(2), email |-> <<"b", "b">>, phone |-> "555",
    status |-> "suspended"],
   [self |-> WithSlash(CustomerUrl(2)), email |-> <<"B", "b">>, phone |-> Null,
    status |-> "verified"]}

\* The answers of at most MaxListed customers.
CustomerAnswers ==
  UNION {[1..n -> ProviderCustomers] : n \in 0..MaxListed}

NextRoundTrip ==
  \/ NoneInFlight /\ PostConfig(1, "key1", "secret1")
  \/ \E e \in LongLifetime : AuthGranted(1, "tokenA", e)
  \/ AuthRefused(1)
  \/ NoneInFlight /\ GetCustomers(1)
  \/ \E answer \in CustomerAnswers : CustomersListedWith(1, answer)
  \/ \E err \in ProviderErrors : CallFailed(1, err)

SpecRoundTrip == Init /\ [][NextRoundTrip]_vars

\* The provider form of a record: the assignments of the mapping read in
\* the other direction.
ToProvider(record) ==
  [self |-> record.url, email |-> record.email, phone |-> record.phone,
   status |-> record.status]

ShortLifetime == {120}

NextRefresh ==
  \/ NoneInFlight /\ PostConfig(1, "key1", "secret1")
  \/ \E e \in ShortLifetime : AuthGranted(1, "tokenA", e)
  \/ \E d \in Steps : Tick(d)
  \/ TransferAddedElsewhere
  \/ NoneInFlight /\ GetTransfers(1)
  \/ RootFetched(1)
  \/ \E answer \in TransferAnswers : TransfersListedWith(1, answer)
  \/ \E k \in 1..MaxTransfers, t \in Tokens, e \in ShortLifetime :
        TaskAuthGranted(1, k, t, e)
  \/ \E k \in 1..MaxTransfers : TaskAuthRefused(1, k)
  \/ \E k \in 1..MaxTransfers, name \in FundingNames : TaskFetched(1, k, name)

SpecRefresh == Init /\ [][NextRefresh]_vars

\* The token requests awaiting the provider's answer: <<r, 0>> is the one
\* of slot r's handler, <<r, k>> the one of its k-th detail fetch.
TokenRequestsInFlight ==
  {<<r, 0>> : r \in {q \in Reqs : req[q].sub = "auth"}}
  \cup UNION {{<<r, k>> : k \in {j \in 1..Len(req[r].loc.tasks) :
                                   req[r].loc.tasks[j].sub = "auth"}} :
              r \in Reqs}

\* C29: at most one token request is in flight at any time.
SingleTokenRequest == Cardinality(TokenRequestsInFlight) <= 1

(***************************************************************************)
(* GET /api/config/status                                                  *)
(***************************************************************************)
\* The isConfigured and hasToken fields of the answer.
ConfigStatus ==
  [isConfigured |-> Truthy(dwollaConfig.key) /\ Truthy(dwollaConfig.secret),
   hasToken |-> Truthy(dwollaConfig.accessToken)]

\* C30: a configuration request answered 400 leaves the stored key, secret
\* and token as they were.  While no token was ever obtained no
\* configuration has succeeded, so the key and secret before the rejected
\* request were the initial ones: the status endpoint reports isConfigured
\* false after the rejection as it did before.
RejectedConfigKeepsStatus ==
  \A r \in Reqs :
     (/\ req[r].h = "config" /\ req[r].pc = "done" /\ req[r].status = 400
      /\ ~ConfigStatus.hasToken)
        => ~ConfigStatus.isConfigured

====
